---- MODULE Spec2Model ----
\* Verification model of the clore-scraper pipeline: the retry helper
\* (utils/retry), the paginated scraper (services/shopifyScraper), the batched
\* sync client (services/graphqlClient) and the orchestrator (index.ts).
\* Every await of the source is a step boundary: an action runs a handler from
\* one suspension point to the next.
EXTENDS Integers, Sequences, FiniteSets, TLC

VARIABLES
    \* ---- retryWithBackoff (utils/retry) ----
    maxRetries,     \* parameter maxRetries of the running call
    attempt,        \* loop variable of the for loop
    lastError,      \* local lastError
    rstat,          \* "idle" | "inflight" | "sleeping" | "returned" | "thrown"
    rop,            \* which closure fn is: "op", "page", "batch", ...
    rval,           \* value fn resolved with (the axios response)
    trace,          \* history of fn invocations, backoff sleeps and delays
    inflight,       \* history: the requests issued whose promise has not settled
    failures,       \* history: the rejections of fn caught by the running call
    \* ---- scrapeShopifyProducts (services/shopifyScraper) ----
    feed,           \* what the storefront serves: page number -> response body
    page, hasMore, allProducts, allVariants, failedProducts,
    spc,            \* "idle" | "fetching" | "delaying" | "done"
    scraperResult,  \* the returned ScraperResult
    \* ---- syncScrapedStoreAndProducts (services/graphqlClient) ----
    data,           \* argument data: [store, products, product_variants]
    i, productBatch, variantBatch,
    totalProductsCreated, totalVariantsCreated, allErrors, storeId,
    sent,           \* history: the variables of every mutation submitted
    answers,        \* history: the response body handled for each batch
    ypc,            \* "idle" | "posting" | "done"
    syncResult,     \* the returned {success, message, result}
    \* ---- main and scrapeShopifyStore (index.ts) ----
    argv,           \* process.argv.slice(2); argv[1] is a character sequence
    mpc,            \* "start" | "detect" | "scrape" | "shop" | "branding" |
                    \* "auth" | "sync" | "authDelete" | "delete" | "exit"
    normalizedDomain, detection, mapped, shopInfo, authResult, deleteResult,
    shopAnswer,     \* history: how the /shop.json request of getShopInfo ended
    scrapeError,    \* error of the {success: false, error} scrapeShopifyStore returns
    exitCode        \* argument of process.exit, -1 while running

retryVars  == <<maxRetries, attempt, lastError, rstat, rop, rval, trace, inflight,
               failures>>
scrapeVars == <<feed, page, hasMore, allProducts, allVariants, failedProducts,
                spc, scraperResult>>
syncVars   == <<data, i, productBatch, variantBatch, totalProductsCreated,
                totalVariantsCreated, allErrors, storeId, sent, answers, ypc,
                syncResult>>
mainVars   == <<argv, mpc, shopAnswer, normalizedDomain, detection, mapped, shopInfo, authResult,
                deleteResult, scrapeError, exitCode>>
vars == <<retryVars, scrapeVars, syncVars, mainVars>>

\* ------------------------------------------------------------------ bounds
\* largest maxRetries a stand-alone retry call is given
RetryMaxAttempts == 5
\* largest maxRetries (MAX_RETRIES setting) in the scraper and sync runs
MaxAttempts == 2
\* pages the storefront feed describes; later pages are empty
MaxPages == 3
\* largest product list handed to sync
MaxProducts == 45
\* pages of the feed in a run of the whole CLI
MainPages == 1
\* longest list of raw records handed to the list mappers
MaxRecords == 3

\* ------------------------------------------------------------- constants
RATE_LIMIT_DELAY == 2000
BATCH_SIZE == 20

None == [none |-> TRUE]

\* ------------------------------------------------------------------ retry
Pow2(n) == IF n <= 0 THEN 1 ELSE 2 ^ n

\* mutant: the exponent is the attempt number
BackoffDelay_Late(a) == Pow2(a) * 1000

\* const delay = Math.pow(2, attempt - 1) * 1000
BackoffDelay(a) == Pow2(a - 1) * 1000

\* let lastError: Error = new Error('Unknown error')
UnknownError == [kind |-> "unknown", at |-> 0]

\* error.message of a rejection, by kind
ErrorMessage(kind) ==
    CASE kind = "network" -> "Network Error"
      [] kind = "timeout" -> "timeout of 30000ms exceeded"
      [] kind = "http404" -> "Request failed with status code 404"
      [] kind = "noarray" -> "Response missing products array"
      [] OTHER            -> "Unknown error"

\* for (let attempt = 1; attempt <= maxRetries; ...)
LoopCond(a, m) == a <= m

CallEvent(op, arg, a)  == [ev |-> "call",  op |-> op, arg |-> arg, n |-> a]
SleepEvent(op, ms, a)  == [ev |-> "sleep", op |-> op, arg |-> ms,  n |-> a]
DelayEvent(ms)         == [ev |-> "delay", op |-> "page", arg |-> ms, n |-> 0]

\* the argument the closure sends with its request
ReqArg(op) ==
    CASE op = "page"  -> page
      [] op = "batch" -> (i \div BATCH_SIZE) + 1
      [] OTHER        -> 0


\* what fn resolves with, per closure (defined below, per caller)
PageKinds == {"absent", "empty", "plain", "mixed"}

\* a weight of the source: a JSON number, or absent
NoWeight == [has |-> FALSE, n |-> 0]
Weight(n) == [has |-> TRUE, n |-> n]

\* an inventory_quantity of the source: absent, a JSON number (in tenths, so
\* that 25 is 2.5) or a JSON string
NoQuantity == [type |-> "undefined", tenths |-> 0, text |-> ""]
NumQuantity(t) == [type |-> "number", tenths |-> t, text |-> ""]
StrQuantity(s) == [type |-> "string", tenths |-> 0, text |-> s]

\* a ShopifyVariant as the public products.json serves it: no weight, no
\* inventory_quantity
Variant(id, title, pid, price) ==
    [id |-> id, title |-> title, product_id |-> pid, price |-> price,
     weight |-> NoWeight, weight_unit |-> "", inventory_quantity |-> NoQuantity]
Product(id, title, isArr, vs) ==
    [id |-> id, title |-> title, variantsIsArray |-> isArr, variants |-> vs]

\* the body GET /products.json?page=n answers with, by kind of page
PageBody(kind, n) ==
    LET b == 10 * n IN
    CASE kind = "absent" -> [hasProducts |-> FALSE, products |-> <<>>]
      [] kind = "empty"  -> [hasProducts |-> TRUE,  products |-> <<>>]
      [] kind = "plain"  ->
           [hasProducts |-> TRUE,
            products |-> << Product(b + 1, "t", TRUE,
                                    << Variant(100 * b + 1, "v", b + 1, "10.00") >>) >>]
      [] kind = "noid"   ->
           \* a titled product without an id, with a valid variant
           [hasProducts |-> TRUE,
            products |-> <<
              Product(b + 1, "t", TRUE,
                      << Variant(100 * b + 1, "v", b + 1, "10.00") >>),
              Product(0, "t", TRUE,
                      << Variant(100 * b + 7, "v", 0, "10.00") >>) >>]
      [] OTHER ->
           [hasProducts |-> TRUE,
            products |-> <<
              Product(b + 1, "t", TRUE,
                      << Variant(100 * b + 1, "v", b + 1, "10.00"),
                         Variant(0,           "v", b + 1, "10.00"),
                         Variant(100 * b + 3, "",  b + 1, "10.00"),
                         Variant(100 * b + 4, "v", b + 1, "abc") >>),
              Product(b + 2, "", TRUE,
                      << Variant(100 * b + 5, "v", b + 2, "10.00") >>),
              Product(b + 3, "t", FALSE, <<>>),
              Product(0, "t", TRUE,
                      << Variant(100 * b + 6, "v", 0, "-5") >>) >>]

\* ------------------------------------------------- remote mutation endpoint
Mutation(ok, msg, sid, pc, vc, errs) ==
    [success |-> ok, message |-> msg, storeId |-> sid, productsCreated |-> pc,
     variantsCreated |-> vc, errors |-> errs]

NoMutation == Mutation(FALSE, "", 0, 0, 0, <<>>)

\* a SyncResponse body: errors (<<>> when absent) and data.syncScrapedStoreAndProducts
SyncBody(gql, has, mut) == [gqlErrors |-> gql, hasMutation |-> has, mutation |-> mut]

\* the bodies the remote may answer batch b with
SyncResponses(b, ps, vs) ==
    { SyncBody(<<"denied", "again">>, FALSE, NoMutation),
      SyncBody(<<>>, FALSE, NoMutation),
      SyncBody(<<>>, TRUE, Mutation(FALSE, "rejected", 900 + b, 1, 1, <<"why">>)),
      SyncBody(<<>>, TRUE, Mutation(TRUE, "ok", b, Len(ps), Len(vs), <<>>)),
      SyncBody(<<>>, TRUE, Mutation(TRUE, "ok", 0, 0, 0, <<>>)),
      SyncBody(<<>>, TRUE, Mutation(TRUE, "ok", 100 + b, Len(ps), 0, <<"skipped">>)) }

\* the body GET /products.json (the first page of the feed) answers with
CatalogBody == IF 1 \in DOMAIN feed THEN PageBody(feed[1], 1) ELSE PageBody("empty", 1)

\* mutant: any HTTP 200 body passes the detection
HasProductsArray_Any(body) == TRUE

\* !(!response.data.products || !Array.isArray(response.data.products))
HasProductsArray(body) == body.hasProducts

\* the ways an invocation of fn can reject, per closure
ErrorKinds(op) ==
    CASE op = "op"     -> {"network", "timeout", "http404"}
      [] op = "detect" ->
           \* fn itself throws when the body has no products array
           {"network", "timeout", "http404"} \cup
             (IF HasProductsArray(CatalogBody) THEN {} ELSE {"noarray"})
      [] op \in {"shop", "branding"} -> {"network", "timeout", "http404"}
      [] OTHER         -> {"network"}

\* the bodies GET /shop.json answers with: response.data.shop and its currency
ShopBody(has, cur) == [hasShop |-> has, currency |-> cur]
ShopResponses == { ShopBody(FALSE, ""), ShopBody(TRUE, ""), ShopBody(TRUE, "EUR") }

\* the bodies of the Storefront GraphQL query: data.shop, brand.logo.image.url,
\* brand.shortDescription, description ("" when absent)
BrandBody(has, logo, short, desc) ==
    [hasShop |-> has, logo |-> logo, shortDescription |-> short, description |-> desc]
BrandResponses ==
    { BrandBody(FALSE, "", "", ""), BrandBody(TRUE, "", "", ""),
      BrandBody(TRUE, "shop-logo", "short", "long"),
      BrandBody(TRUE, "", "", "long") }

\* a DeleteStoreResponse body: errors and data.deleteStore
DeleteBody(gql, res) == [gqlErrors |-> gql, deleteStore |-> res]
DeleteResponses ==
    { DeleteBody(<<"denied">>, "absent"), DeleteBody(<<"denied">>, "true"),
      DeleteBody(<<>>, "absent"), DeleteBody(<<>>, "false"),
      DeleteBody(<<>>, "true") }

\* what fn resolves with: the page the storefront serves (pages past the feed
\* are empty), or one of the values of a stand-alone operation
Responses(op) ==
    CASE op = "page" ->
           {IF page \in DOMAIN feed THEN PageBody(feed[page], page)
                                    ELSE PageBody("empty", page)}
      [] op = "batch" -> SyncResponses((i \div BATCH_SIZE) + 1, productBatch, variantBatch)
      [] op = "detect" ->
           IF HasProductsArray(CatalogBody) THEN {CatalogBody} ELSE {}
      [] op = "shop" -> ShopResponses
      [] op = "branding" -> BrandResponses
      [] op = "delete" -> DeleteResponses
      [] OTHER -> {"v1", "v2"}

\* the request of authenticateWithSupabase (not made through retryWithBackoff)
AuthRequest == <<"auth", 0>>

\* the requests outstanding once the awaited authentication has settled
AfterAuth(reqs) == reqs \ {AuthRequest}

\* mutant: the next page or batch is requested along with the current one
Requests_Prefetch(op, arg) == {<<op, arg>>, <<op, arg + 1>>}

\* await fn(): one invocation of the closure issues one request
Requests(op, arg) == {<<op, arg>>}

\* the argument name of retryWithBackoff, per closure
RetryName(op) ==
    CASE op = "page"     -> "Page N of domain"
      [] op = "detect"   -> "Detection of domain"
      [] op = "shop"     -> "Shop info fetch for domain"
      [] op = "branding" -> "Storefront GraphQL fetch for domain"
      [] op = "batch"    -> "GraphQL sync batch N"
      [] op = "delete"   -> "GraphQL delete request"
      [] OTHER           -> "operation"

\* throw lastError: the error object the last attempt left, as it is
ThrownError(err, name) == err

\* retryWithBackoff is called: lastError is initialised, the loop is entered
\* and fn is invoked for attempt 1 (or the loop body never runs)
RetryEnter(op, arg) ==
    /\ rop' = op
    /\ lastError' = UnknownError
    /\ attempt' = 1
    /\ rval' = None
    /\ failures' = <<>>
    /\ IF LoopCond(1, maxRetries)
         THEN /\ rstat' = "inflight"
              /\ trace' = Append(trace, CallEvent(op, arg, 1))
              /\ inflight' = AfterAuth(inflight) \cup Requests(op, arg)
         ELSE /\ rstat' = "thrown"
              /\ trace' = trace
              /\ inflight' = AfterAuth(inflight)
    /\ UNCHANGED maxRetries

\* mutant: one attempt too many
RetriesLeft_OneMore(a, m) == a <= m

\* if (attempt < maxRetries): back off and go round again
RetriesLeft(a, m) == a < m

\* the promise of fn settles: return its value, or catch its error and either
\* sleep before the next attempt or leave the loop and throw lastError
Settle ==
    /\ rstat = "inflight"
    /\ \/ \E v \in Responses(rop) :
            /\ rstat' = "returned"
            /\ rval' = v
            /\ UNCHANGED <<attempt, lastError, trace, failures>>
       \/ \E k \in ErrorKinds(rop) :
            /\ lastError' = [kind |-> k, at |-> attempt]
            /\ failures' = Append(failures, k)
            /\ IF RetriesLeft(attempt, maxRetries)
                 THEN /\ rstat' = "sleeping"
                      /\ trace' = Append(trace,
                                    SleepEvent(rop, BackoffDelay(attempt), attempt))
                      /\ attempt' = attempt
                 ELSE /\ rstat' = "thrown"
                      /\ trace' = trace
                      /\ attempt' = attempt + 1
            /\ UNCHANGED rval
    /\ inflight' = inflight \ {<<rop, ReqArg(rop)>>}
    /\ UNCHANGED <<maxRetries, rop>>
    /\ UNCHANGED <<scrapeVars, syncVars, mainVars>>

\* the backoff sleep ends: attempt++ and fn is invoked again
Wake ==
    /\ rstat = "sleeping"
    /\ attempt' = attempt + 1
    /\ rstat' = "inflight"
    /\ trace' = Append(trace, CallEvent(rop, ReqArg(rop), attempt + 1))
    /\ inflight' = inflight \cup Requests(rop, ReqArg(rop))
    /\ failures' = failures
    /\ UNCHANGED <<maxRetries, rop, rval, lastError>>
    /\ UNCHANGED <<scrapeVars, syncVars, mainVars>>

\* a stand-alone call retryWithBackoff(fn, name, maxRetries)
Call ==
    /\ rstat = "idle"
    /\ rop = "op"
    /\ RetryEnter("op", 0)
    /\ UNCHANGED <<scrapeVars, syncVars, mainVars>>

\* ---------------------------------------------------------------- scraper
\* if (!variant.id || !variant.title) continue; else allVariants.push(variant)
VariantOk(v) == ~(v.id = 0 \/ v.title = "")

\* mutant: one invalid variant drops the variants of the whole product
KeepVariants_AllOrNothing(p) ==
    IF p.variantsIsArray /\ \A k \in 1..Len(p.variants) : VariantOk(p.variants[k])
      THEN p.variants ELSE <<>>

\* the inner for loop: the variants of a product that are pushed to allVariants
KeepVariants(p) ==
    IF p.variantsIsArray THEN SelectSeq(p.variants, VariantOk) ELSE <<>>

\* mutant: the title check is missing
ProcessProduct_NoTitleCheck(acc, p) ==
    [acc EXCEPT !.products = Append(@, p), !.variants = @ \o KeepVariants(p)]

\* the body of the for loop over one product
ProcessProduct(acc, p) ==
    IF p.title = ""
      THEN [acc EXCEPT !.failed =
              Append(@, [title |-> "Unknown", error |-> "Product missing title"])]
      ELSE [acc EXCEPT !.products = Append(@, p),
                       !.variants = @ \o KeepVariants(p)]

\* mutant: a product without title ends the processing of its page
RECURSIVE ProcessProducts_StopAtFailure(_, _, _)
ProcessProducts_StopAtFailure(ps, k, acc) ==
    IF k > Len(ps) THEN acc
    ELSE IF ps[k].title = "" THEN ProcessProduct(acc, ps[k])
    ELSE ProcessProducts_StopAtFailure(ps, k + 1, ProcessProduct(acc, ps[k]))

\* for (const product of products) { ... }
RECURSIVE ProcessProducts(_, _, _)
ProcessProducts(ps, k, acc) ==
    IF k > Len(ps) THEN acc
    ELSE ProcessProducts(ps, k + 1, ProcessProduct(acc, ps[k]))

\* if (!products || products.length === 0)
NoProducts(body) == ~body.hasProducts \/ Len(body.products) = 0

\* mutant: totalPages counts the page that was being fetched
ScraperResult_CountsCurrent(ps, vs, fs, pg) ==
    [products |-> ps, variants |-> vs, failedProducts |-> fs, totalPages |-> pg]

ScraperResult(ps, vs, fs, pg) ==
    [products |-> ps, variants |-> vs, failedProducts |-> fs, totalPages |-> pg - 1]

EmptyResult == [products |-> <<>>, variants |-> <<>>, failedProducts |-> <<>>,
                totalPages |-> 0]

\* scrapeShopifyProducts(domain) up to its first await: fetch of page 1
ScrapeEnter ==
    /\ allProducts' = <<>>
    /\ allVariants' = <<>>
    /\ failedProducts' = <<>>
    /\ page' = 1
    /\ hasMore' = TRUE
    /\ spc' = "fetching"
    /\ RetryEnter("page", 1)
    /\ UNCHANGED <<feed, scraperResult>>

ScrapeStart ==
    /\ spc = "idle"
    /\ rstat = "idle"
    /\ rop = "page"
    /\ ScrapeEnter
    /\ UNCHANGED <<syncVars, mainVars>>

\* getRateLimitDelay()
getRateLimitDelay == RATE_LIMIT_DELAY

\* mutant: the next page is fetched at once
ShouldDelay_Never(more, products) == FALSE

\* if (hasMore && products.length > 0) await delay(rateLimitDelay)
ShouldDelay(more, products) == more /\ Len(products) > 0

\* the page arrived: stop on an empty page, else process it, page++, and
\* await the rate-limit delay
ScrapeOnResponse ==
    /\ spc = "fetching"
    /\ rop = "page"
    /\ rstat = "returned"
    /\ IF NoProducts(rval)
         THEN /\ hasMore' = FALSE
              /\ spc' = "done"
              /\ scraperResult' =
                   ScraperResult(allProducts, allVariants, failedProducts, page)
              /\ rstat' = "idle"
              /\ UNCHANGED <<allProducts, allVariants, failedProducts, page, trace>>
              /\ UNCHANGED <<maxRetries, attempt, lastError, rop, rval, inflight, failures>>
         ELSE LET acc == ProcessProducts(rval.products, 1,
                           [products |-> allProducts, variants |-> allVariants,
                            failed |-> failedProducts])
              IN /\ allProducts' = acc.products
                 /\ allVariants' = acc.variants
                 /\ failedProducts' = acc.failed
                 /\ page' = page + 1
                 /\ UNCHANGED <<hasMore, scraperResult>>
                 /\ IF ShouldDelay(hasMore, rval.products)
                      THEN /\ spc' = "delaying"
                           /\ rstat' = "idle"
                           /\ trace' = Append(trace, DelayEvent(getRateLimitDelay))
                           /\ UNCHANGED <<maxRetries, attempt, lastError, rop, rval, inflight, failures>>
                      ELSE /\ spc' = "fetching"
                           /\ RetryEnter("page", page + 1)
    /\ UNCHANGED feed
    /\ UNCHANGED <<syncVars, mainVars>>

\* the rate-limit delay ended: while (hasMore) goes round, next page is fetched
ScrapeAfterDelay ==
    /\ spc = "delaying"
    /\ hasMore
    /\ spc' = "fetching"
    /\ RetryEnter("page", page)
    /\ UNCHANGED <<feed, page, hasMore, allProducts, allVariants, failedProducts,
                   scraperResult>>
    /\ UNCHANGED <<syncVars, mainVars>>

\* retryWithBackoff threw: catch, hasMore = false, the loop ends, return
ScrapeOnFailure ==
    /\ spc = "fetching"
    /\ rop = "page"
    /\ rstat = "thrown"
    /\ rstat' = "idle"
    /\ hasMore' = FALSE
    /\ spc' = "done"
    /\ scraperResult' = ScraperResult(allProducts, allVariants, failedProducts, page)
    /\ UNCHANGED <<maxRetries, attempt, lastError, rop, rval, trace, inflight, failures>>
    /\ UNCHANGED <<feed, page, allProducts, allVariants, failedProducts>>
    /\ UNCHANGED <<syncVars, mainVars>>

\* ------------------------------------------------------------ sync client
\* result.data.errors.map((e) => e.message).join(', ')
RECURSIVE JoinMessages(_)
JoinMessages(es) ==
    IF Len(es) = 0 THEN ""
    ELSE IF Len(es) = 1 THEN es[1]
    ELSE es[1] \o ", " \o JoinMessages(Tail(es))

\* `Batch ${batchNum}: ${text}`
BatchError(b, text) == "Batch " \o ToString(b) \o ": " \o text

\* data.products.slice(i, Math.min(i + BATCH_SIZE, totalProducts))
Min(a, b) == IF a < b THEN a ELSE b
Slice(seq, from, to) == SubSeq(seq, from + 1, to)
\* mutant: the slice runs one product into the next batch
ProductBatch_Overlap(products, k) ==
    Slice(products, k, Min(k + BATCH_SIZE + 1, Len(products)))

ProductBatch(products, k) == Slice(products, k, Min(k + BATCH_SIZE, Len(products)))

\* data.product_variants.filter(v => productBatch.some(p => p.shopify_id === v.shopify_product_id))
InBatch(v, batch) ==
    \E k \in 1..Len(batch) : batch[k].shopify_id = v.shopify_product_id
\* mutant: every batch carries the whole variant list
VariantBatch_All(variants, batch) == variants

VariantBatch(variants, batch) ==
    SelectSeq(variants, LAMBDA v : InBatch(v, batch))

\* const overallSuccess = allErrors.length === 0
OverallSuccess(errs) == Len(errs) = 0

\* the summary returned after the loop
SyncSummary(errs, sid, pc, vc) ==
    [success |-> OverallSuccess(errs),
     message |-> IF OverallSuccess(errs) THEN "All batches synced successfully"
                 ELSE "Sync completed with " \o ToString(Len(errs)) \o " errors",
     hasResult |-> TRUE,
     result |-> [success |-> OverallSuccess(errs), storeId |-> sid,
                 productsCreated |-> pc, variantsCreated |-> vc, errors |-> errs]]

\* the catch block: { success: false, message: `Sync error: ${message}` }
SyncFailure(err) ==
    [success |-> FALSE, message |-> "Sync error: " \o ErrorMessage(err.kind),
     hasResult |-> FALSE,
     result |-> [success |-> FALSE, storeId |-> 0, productsCreated |-> 0,
                 variantsCreated |-> 0, errors |-> <<>>]]

\* one round of `for (let i = ...; i < totalProducts; i += BATCH_SIZE)` entered
\* at index k with the accumulators errs, sid, pc, vc: either the next batch is
\* cut and posted, or the loop is over and the summary is returned
SyncLoop(k, errs, sid, pc, vc) ==
    /\ i' = k
    /\ allErrors' = errs
    /\ storeId' = sid
    /\ totalProductsCreated' = pc
    /\ totalVariantsCreated' = vc
    /\ IF k < Len(data.products)
         THEN LET pb == ProductBatch(data.products, k)
                  vb == VariantBatch(data.product_variants, pb)
              IN /\ productBatch' = pb
                 /\ variantBatch' = vb
                 /\ sent' = Append(sent, [store |-> data.store, products |-> pb,
                                          variants |-> vb])
                 /\ ypc' = "posting"
                 /\ syncResult' = syncResult
                 /\ RetryEnter("batch", (k \div BATCH_SIZE) + 1)
         ELSE /\ ypc' = "done"
              /\ syncResult' = SyncSummary(errs, sid, pc, vc)
              /\ rstat' = "idle"
              /\ UNCHANGED <<productBatch, variantBatch, sent>>
              /\ inflight' = AfterAuth(inflight)
              /\ failures' = failures
              /\ UNCHANGED <<maxRetries, attempt, lastError, rop, rval, trace>>
    /\ UNCHANGED data

\* syncScrapedStoreAndProducts(token, data) up to its first await
SyncStart ==
    /\ ypc = "idle"
    /\ rstat = "idle"
    /\ rop = "batch"
    /\ SyncLoop(0, <<>>, 0, 0, 0)
    /\ UNCHANGED answers
    /\ UNCHANGED <<scrapeVars, mainVars>>

\* the response of a batch arrived: record its error or accumulate its result,
\* then go round the loop
SyncOnResponse ==
    /\ ypc = "posting"
    /\ rop = "batch"
    /\ rstat = "returned"
    /\ answers' = Append(answers, rval)
    /\ LET b == (i \div BATCH_SIZE) + 1
           m == rval.mutation
       IN IF Len(rval.gqlErrors) > 0
            THEN SyncLoop(i + BATCH_SIZE,
                   Append(allErrors, BatchError(b, JoinMessages(rval.gqlErrors))),
                   storeId, totalProductsCreated, totalVariantsCreated)
          ELSE IF ~rval.hasMutation
            THEN SyncLoop(i + BATCH_SIZE,
                   Append(allErrors, BatchError(b, "No mutation result")),
                   storeId, totalProductsCreated, totalVariantsCreated)
          ELSE IF ~m.success
            THEN SyncLoop(i + BATCH_SIZE,
                   Append(allErrors, BatchError(b, m.message)),
                   storeId, totalProductsCreated, totalVariantsCreated)
          ELSE SyncLoop(i + BATCH_SIZE,
                   allErrors \o m.errors,
                   IF m.storeId # 0 /\ storeId = 0 THEN m.storeId ELSE storeId,
                   totalProductsCreated + m.productsCreated,
                   totalVariantsCreated + m.variantsCreated)
    /\ UNCHANGED <<scrapeVars, mainVars>>

\* retryWithBackoff threw inside the loop: the function's catch returns
SyncOnFailure ==
    /\ ypc = "posting"
    /\ rop = "batch"
    /\ rstat = "thrown"
    /\ rstat' = "idle"
    /\ ypc' = "done"
    /\ syncResult' = SyncFailure(ThrownError(lastError, RetryName(rop)))
    /\ UNCHANGED <<maxRetries, attempt, lastError, rop, rval, trace, inflight, failures>>
    /\ UNCHANGED <<data, i, productBatch, variantBatch, totalProductsCreated,
                   totalVariantsCreated, allErrors, storeId, sent, answers>>
    /\ UNCHANGED <<scrapeVars, mainVars>>

\* ------------------------------------------------------ domain normalizer
\* strings the normalizer works on are sequences of one-character strings
LowerSeq == << "a","b","c","d","e","f","g","h","i","j","k","l","m",
               "n","o","p","q","r","s","t","u","v","w","x","y","z" >>
UpperSeq == << "A","B","C","D","E","F","G","H","I","J","K","L","M",
               "N","O","P","Q","R","S","T","U","V","W","X","Y","Z" >>
Letters == {LowerSeq[k] : k \in 1..Len(LowerSeq)}
               \cup {UpperSeq[k] : k \in 1..Len(UpperSeq)}
Digits == {"0","1","2","3","4","5","6","7","8","9"}
Whitespace == {" ", "\t", "\n"}

StartsWith(s, pre) == Len(s) >= Len(pre) /\ SubSeq(s, 1, Len(pre)) = pre
Drop(s, n) == SubSeq(s, n + 1, Len(s))

\* input.replace(/^(https?:\/\/)/, '')
StripProtocol(s) ==
    IF StartsWith(s, <<"h","t","t","p","s",":","/","/">>) THEN Drop(s, 8)
    ELSE IF StartsWith(s, <<"h","t","t","p",":","/","/">>) THEN Drop(s, 7)
    ELSE s

\* normalized.replace(/^\/+/, '')
RECURSIVE StripLeadingSlashes(_)
StripLeadingSlashes(s) ==
    IF Len(s) > 0 /\ s[1] = "/" THEN StripLeadingSlashes(Tail(s)) ELSE s

\* normalized.split(c)[0]
RECURSIVE BeforeFirst(_, _)
BeforeFirst(s, c) ==
    IF Len(s) = 0 \/ s[1] = c THEN <<>>
    ELSE <<s[1]>> \o BeforeFirst(Tail(s), c)

\* normalized.replace(/^www\./, '')
StripWww(s) == IF StartsWith(s, <<"w","w","w",".">>) THEN Drop(s, 4) ELSE s

\* normalized.toLowerCase()
LowerChar(c) ==
    IF \E k \in 1..Len(UpperSeq) : UpperSeq[k] = c
      THEN LowerSeq[CHOOSE k \in 1..Len(UpperSeq) : UpperSeq[k] = c]
      ELSE c
ToLowerCase(s) == [k \in 1..Len(s) |-> LowerChar(s[k])]

\* normalized.trim()
RECURSIVE TrimStart(_)
TrimStart(s) == IF Len(s) > 0 /\ s[1] \in Whitespace THEN TrimStart(Tail(s)) ELSE s
RECURSIVE TrimEnd(_)
TrimEnd(s) ==
    IF Len(s) > 0 /\ s[Len(s)] \in Whitespace
      THEN TrimEnd(SubSeq(s, 1, Len(s) - 1)) ELSE s
Trim(s) == TrimEnd(TrimStart(s))

\* s.split('.')
RECURSIVE SplitOn(_, _)
SplitOn(s, c) ==
    IF \A k \in 1..Len(s) : s[k] # c THEN <<s>>
    ELSE <<BeforeFirst(s, c)>> \o SplitOn(Drop(s, Len(BeforeFirst(s, c)) + 1), c)

\* [a-z0-9]([a-z0-9-]*[a-z0-9])? under the i flag
IsLabel(l) ==
    /\ Len(l) >= 1
    /\ l[1] \in Letters \cup Digits
    /\ l[Len(l)] \in Letters \cup Digits
    /\ \A k \in 1..Len(l) : l[k] \in Letters \cup Digits \cup {"-"}

\* [a-z]{2,} under the i flag
IsTld(l) == Len(l) >= 2 /\ \A k \in 1..Len(l) : l[k] \in Letters

\* /^([a-z0-9]([a-z0-9-]*[a-z0-9])?\.)+[a-z]{2,}$/i.test(domain)
isValidDomain(d) ==
    LET parts == SplitOn(d, ".") IN
    /\ Len(parts) >= 2
    /\ \A k \in 1..(Len(parts) - 1) : IsLabel(parts[k])
    /\ IsTld(parts[Len(parts)])

\* the string normalizeDomain validates
Normalized(input) ==
    Trim(ToLowerCase(StripWww(BeforeFirst(BeforeFirst(
        StripLeadingSlashes(StripProtocol(input)), "/"), ":"))))

\* normalizeDomain(input): the hostname, or the thrown 'Invalid domain format'
normalizeDomain(input) ==
    IF isValidDomain(Normalized(input))
      THEN [ok |-> TRUE, value |-> Normalized(input)]
      ELSE [ok |-> FALSE, value |-> Normalized(input)]

\* ------------------------------------------------------------ data mapper
\* formatStoreName: the part before the first dot, hyphens to spaces, each
\* word capitalised
UpperChar(c) ==
    IF \E k \in 1..Len(LowerSeq) : LowerSeq[k] = c
      THEN UpperSeq[CHOOSE k \in 1..Len(LowerSeq) : LowerSeq[k] = c]
      ELSE c
Capitalize(w) ==
    IF Len(w) = 0 THEN w ELSE <<UpperChar(w[1])>> \o ToLowerCase(Tail(w))
RECURSIVE JoinWith(_, _)
JoinWith(parts, sep) ==
    IF Len(parts) = 0 THEN <<>>
    ELSE IF Len(parts) = 1 THEN parts[1]
    ELSE parts[1] \o <<sep>> \o JoinWith(Tail(parts), sep)
formatStoreName(domain) ==
    LET words == SplitOn(BeforeFirst(domain, "."), "-")
    IN JoinWith([k \in 1..Len(words) |-> Capitalize(words[k])], " ")

\* createStoreHandle: domain.split('.')[0].toLowerCase()
createStoreHandle(domain) == ToLowerCase(BeforeFirst(domain, "."))

\* the text of a character sequence
RECURSIVE Str(_)
Str(cs) == IF Len(cs) = 0 THEN "" ELSE cs[1] \o Str(Tail(cs))

\* parseFloat(String(price)) on the price literals of the feed, in cents
ParseFloat(s) ==
    CASE s = "10.00" -> [nan |-> FALSE, cents |-> 1000]
      [] s = "0"     -> [nan |-> FALSE, cents |-> 0]
      [] s = "-5"    -> [nan |-> FALSE, cents |-> -500]
      [] s = "10abc" -> [nan |-> FALSE, cents |-> 1000]
      [] OTHER       -> [nan |-> TRUE,  cents |-> 0]

\* isValidPrice(price) for a string price
isValidPrice(price) == ~ParseFloat(price).nan /\ ParseFloat(price).cents >= 0

\* errors.join(', ')
JoinErrors(es) == JoinMessages(es)

\* mapShopifyProductToClore(product): the Clore product, or the thrown message
mapShopifyProductToClore(product) ==
    LET errors == (IF product.title = "" THEN <<"Missing title">> ELSE <<>>)
                    \o (IF product.id = 0 THEN <<"Missing product ID">> ELSE <<>>)
    IN IF Len(errors) > 0
         THEN [ok |-> FALSE, error |-> "Invalid product: " \o JoinErrors(errors)]
         ELSE [ok |-> TRUE,
               value |-> [shopify_id |-> ToString(product.id), title |-> product.title]]

\* parseInt(quantity, 10) on the quantity literals: the leading integer
ParseInt(s) ==
    CASE s = "5"    -> [nan |-> FALSE, n |-> 5]
      [] s = "5abc" -> [nan |-> FALSE, n |-> 5]
      [] s = "5.7"  -> [nan |-> FALSE, n |-> 5]
      [] s = "-3"   -> [nan |-> FALSE, n |-> -3]
      [] OTHER      -> [nan |-> TRUE,  n |-> 0]

\* Number(quantity) on the quantity literals, in tenths: the whole text or NaN
ToNumber(s) ==
    CASE s = "5"   -> [nan |-> FALSE, tenths |-> 50]
      [] s = "5.7" -> [nan |-> FALSE, tenths |-> 57]
      [] s = "-3"  -> [nan |-> FALSE, tenths |-> -30]
      [] s = ""    -> [nan |-> FALSE, tenths |-> 0]
      [] OTHER     -> [nan |-> TRUE,  tenths |-> 0]

\* isValidInventory(quantity)
isValidInventory(q) ==
    CASE q.type = "number" -> q.tenths % 10 = 0 /\ q.tenths >= 0
      [] q.type = "string" -> ~ParseInt(q.text).nan /\ ParseInt(q.text).n >= 0
      [] OTHER -> FALSE

\* isValidInventory(q) ? Number(q) : 0
InventoryQuantity(q) ==
    IF isValidInventory(q)
      THEN (IF q.type = "number" THEN [nan |-> FALSE, tenths |-> q.tenths]
            ELSE ToNumber(q.text))
      ELSE [nan |-> FALSE, tenths |-> 0]

\* the weight null of the output
NullWeight == [null |-> TRUE, e7 |-> 0]

\* mutant: ounces fall through to the default branch
WeightInKg_OuncesAsGrams(n, unit) ==
    IF unit = "kg" THEN n * 10000000
    ELSE IF unit = "lb" THEN n * 4535920
    ELSE n * 10000

\* the weight in kilograms of a weight n in unit, in units of 10^-7 kg:
\* g and grams / 1000, kg unchanged, lb * 0.453592, oz * 0.0283495, else / 1000
WeightInKg(n, unit) ==
    IF unit = "g" \/ unit = "grams" THEN n * 10000
    ELSE IF unit = "kg" THEN n * 10000000
    ELSE IF unit = "lb" THEN n * 4535920
    ELSE IF unit = "oz" THEN n * 283495
    ELSE n * 10000

\* let weight = null; if (variant.weight && variant.weight > 0) weight = ...
MappedWeight(variant) ==
    IF variant.weight.has /\ variant.weight.n # 0 /\ variant.weight.n > 0
      THEN [null |-> FALSE, e7 |-> WeightInKg(variant.weight.n, variant.weight_unit)]
      ELSE NullWeight

\* mapShopifyVariantToClore(variant, shopifyProductId)
mapShopifyVariantToClore(variant, shopifyProductId) ==
    LET errors == (IF variant.id = 0 THEN <<"Missing variant ID">> ELSE <<>>)
                    \o (IF variant.title = "" THEN <<"Missing variant title">> ELSE <<>>)
                    \o (IF ~isValidPrice(variant.price)
                          THEN <<"Invalid price: " \o variant.price>> ELSE <<>>)
    IN IF Len(errors) > 0
         THEN [ok |-> FALSE, error |-> "Invalid variant: " \o JoinErrors(errors)]
         ELSE [ok |-> TRUE,
               value |-> [shopify_variant_id |-> ToString(variant.id),
                          shopify_product_id |-> ToString(shopifyProductId),
                          title |-> variant.title, price |-> variant.price,
                          inventory_quantity |->
                              InventoryQuantity(variant.inventory_quantity),
                          weight |-> MappedWeight(variant),
                          weight_unit |-> "kg"]]

\* mutant: the first record that fails ends the loop and discards the list
RECURSIVE mapAllProducts_AllOrNothing(_)
mapAllProducts_AllOrNothing(ps) ==
    IF Len(ps) = 0 THEN [products |-> <<>>, failed |-> <<>>]
    ELSE LET rest == mapAllProducts_AllOrNothing(SubSeq(ps, 1, Len(ps) - 1))
             p == ps[Len(ps)]
             m == mapShopifyProductToClore(p)
         IN IF m.ok /\ Len(rest.failed) = 0
              THEN [rest EXCEPT !.products = Append(@, m.value)]
              ELSE [products |-> <<>>,
                    failed |-> Append(rest.failed,
                     [title |-> IF p.title # "" THEN p.title ELSE "Unknown",
                      error |-> IF m.ok THEN "skipped" ELSE m.error])]

\* mapAllProducts(shopifyProducts): { products, failed }
RECURSIVE mapAllProducts(_)
mapAllProducts(ps) ==
    IF Len(ps) = 0 THEN [products |-> <<>>, failed |-> <<>>]
    ELSE LET rest == mapAllProducts(SubSeq(ps, 1, Len(ps) - 1))
             p == ps[Len(ps)]
             m == mapShopifyProductToClore(p)
         IN IF m.ok
              THEN [rest EXCEPT !.products = Append(@, m.value)]
              ELSE [rest EXCEPT !.failed = Append(@,
                     [title |-> IF p.title # "" THEN p.title ELSE "Unknown",
                      error |-> m.error])]

\* mapAllVariants(shopifyVariants): { variants, failed }
RECURSIVE mapAllVariants(_)
mapAllVariants(vs) ==
    IF Len(vs) = 0 THEN [variants |-> <<>>, failed |-> <<>>]
    ELSE LET rest == mapAllVariants(SubSeq(vs, 1, Len(vs) - 1))
             v == vs[Len(vs)]
             m == mapShopifyVariantToClore(v, v.product_id)
         IN IF m.ok
              THEN [rest EXCEPT !.variants = Append(@, m.value)]
              ELSE [rest EXCEPT !.failed = Append(@,
                     [title |-> IF v.title # "" THEN v.title ELSE ToString(v.id),
                      error |-> m.error])]

\* ------------------------------------------------- orchestrator and CLI
DeleteCommand == <<"d","e","l","e","t","e">>

\* a || b || null on strings, "" standing for every falsy value and for null
OrElse(a, b) == IF a # "" THEN a ELSE b

\* args[3] || undefined, args[4] || undefined
OptionalArg(args, k) == IF Len(args) >= k THEN args[k] ELSE ""

\* mutant: the shop-info values override the CLI-supplied ones
StoreData_ShopInfoFirst(domain, info, logoUrl, description) ==
    [display_name |-> formatStoreName(domain),
     store_handle |-> createStoreHandle(domain),
     store_url |-> <<"h","t","t","p","s",":","/","/">> \o domain,
     default_currency |-> info.currency,
     supported_currencies |-> <<info.currency>>,
     logo_url |-> OrElse(info.logo_url, logoUrl),
     description |-> OrElse(info.description, description)]

\* step 7 of scrapeShopifyStore: the store record
StoreData(domain, info, logoUrl, description) ==
    [display_name |-> formatStoreName(domain),
     store_handle |-> createStoreHandle(domain),
     store_url |-> <<"h","t","t","p","s",":","/","/">> \o domain,
     default_currency |-> info.currency,
     supported_currencies |-> <<info.currency>>,
     logo_url |-> OrElse(logoUrl, info.logo_url),
     description |-> OrElse(description, info.description)]

\* { currency: 'USD' }: the fallback of getShopInfo
FallbackShopInfo == [currency |-> "USD", logo_url |-> "", description |-> ""]

\* what getShopBranding returns for a body
Branding(body) ==
    IF ~body.hasShop THEN [logo_url |-> "", description |-> ""]
    ELSE [logo_url |-> body.logo,
          description |-> OrElse(body.shortDescription, body.description)]

\* process.exit(code)
Exit(code) ==
    /\ mpc' = "exit"
    /\ exitCode' = code

\* mutant: an explicit false is reported like a missing result
DeleteOutcome_FalseAsMissing(body, id) ==
    IF Len(body.gqlErrors) > 0
      THEN [success |-> FALSE, message |-> "GraphQL error: " \o JoinMessages(body.gqlErrors)]
    ELSE IF body.deleteStore \in {"absent", "false"}
      THEN [success |-> FALSE, message |-> "No delete result in response"]
    ELSE [success |-> TRUE, message |-> "Store " \o id \o " deleted successfully"]

\* what deleteStoreById returns for a body
DeleteOutcome(body, id) ==
    IF Len(body.gqlErrors) > 0
      THEN [success |-> FALSE, message |-> "GraphQL error: " \o JoinMessages(body.gqlErrors)]
    ELSE IF body.deleteStore = "absent"
      THEN [success |-> FALSE, message |-> "No delete result in response"]
    ELSE IF body.deleteStore = "false"
      THEN [success |-> FALSE, message |-> "Delete mutation failed"]
    ELSE [success |-> TRUE, message |-> "Store " \o id \o " deleted successfully"]

\* mutant: the detection request is issued before the domain is validated
DomainAccepted_Always(nd) == TRUE

\* normalizeDomain returned instead of throwing
DomainAccepted(nd) == nd.ok

\* main() up to its first await: the argument checks, then either the delete
\* branch (authentication) or scrapeShopifyStore up to the detection request
MainStart ==
    /\ mpc = "start"
    /\ IF Len(argv) < 1
         THEN /\ Exit(1)
              /\ UNCHANGED <<retryVars, normalizedDomain, scrapeError>>
       ELSE IF argv[1] = DeleteCommand
         THEN /\ IF Len(argv) < 4
                   THEN /\ Exit(1)
                        /\ UNCHANGED <<trace, inflight, failures>>
                   ELSE /\ mpc' = "authDelete"
                        /\ trace' = Append(trace, CallEvent("auth", 0, 1))
                        /\ inflight' = inflight \cup {AuthRequest}
                        /\ failures' = failures
                        /\ UNCHANGED exitCode
              /\ UNCHANGED <<maxRetries, attempt, lastError, rstat, rop, rval>>
              /\ UNCHANGED <<normalizedDomain, scrapeError>>
       ELSE IF Len(argv) < 3
         THEN /\ Exit(1)
              /\ UNCHANGED <<retryVars, normalizedDomain, scrapeError>>
       ELSE LET nd == normalizeDomain(argv[1]) IN
            IF DomainAccepted(nd)
              THEN /\ normalizedDomain' = nd.value
                   /\ mpc' = "detect"
                   /\ RetryEnter("detect", 0)
                   /\ UNCHANGED <<scrapeError, exitCode>>
              ELSE /\ scrapeError' = "Invalid domain format: " \o Str(nd.value)
                   /\ Exit(1)
                   /\ UNCHANGED <<retryVars, normalizedDomain>>
    /\ UNCHANGED <<argv, shopAnswer, detection, mapped, shopInfo, authResult, deleteResult>>
    /\ UNCHANGED <<scrapeVars, syncVars>>

\* mutant: a 404 is reported like every other failure
detectShopifyStore_No404(domain, stat, err) ==
    IF stat = "returned" THEN [isShopify |-> TRUE, error |-> ""]
    ELSE [isShopify |-> FALSE,
          error |-> "Detection failed: " \o ErrorMessage(err.kind)]

\* what detectShopifyStore(domain) returns once retryWithBackoff settled
detectShopifyStore(domain, stat, err) ==
    IF stat = "returned" THEN [isShopify |-> TRUE, error |-> ""]
    ELSE IF err.kind = "http404"
      THEN [isShopify |-> FALSE,
            error |-> "No products.json endpoint found at " \o Str(domain)]
    ELSE [isShopify |-> FALSE,
          error |-> "Detection failed: " \o ErrorMessage(err.kind)]

\* detection.error || 'Not a Shopify store'
DetectionError(det) == OrElse(det.error, "Not a Shopify store")

\* mutant: shop information is requested while pages are still being fetched
ScrapeCompleted_Early == spc \in {"done", "delaying"}

\* await scrapeShopifyProducts(normalizedDomain) has resolved
ScrapeCompleted == spc = "done"

\* detectShopifyStore settled: not a store -> the run fails; a store -> the
\* scrape starts with the fetch of page 1
MainOnDetect ==
    /\ mpc = "detect"
    /\ rop = "detect"
    /\ rstat \in {"returned", "thrown"}
    /\ LET det == detectShopifyStore(normalizedDomain, rstat,
                                      ThrownError(lastError, RetryName(rop)))
       IN /\ detection' = det
          /\ IF det.isShopify
               THEN /\ mpc' = "scrape"
                    /\ ScrapeEnter
                    /\ UNCHANGED <<scrapeError, exitCode>>
               ELSE /\ scrapeError' = DetectionError(det)
                    /\ Exit(1)
                    /\ rstat' = "idle"
                    /\ UNCHANGED <<maxRetries, attempt, lastError, rop, rval, trace, inflight, failures>>
                    /\ UNCHANGED scrapeVars
    /\ UNCHANGED <<argv, shopAnswer, normalizedDomain, mapped, shopInfo, authResult, deleteResult>>
    /\ UNCHANGED syncVars

\* scrapeShopifyProducts returned: steps 4 and 5 map the raw lists, step 6
\* requests /shop.json
MainAfterScrape ==
    /\ mpc = "scrape"
    /\ ScrapeCompleted
    /\ LET mp == mapAllProducts(scraperResult.products)
           mv == mapAllVariants(scraperResult.variants)
       IN mapped' = [products |-> mp.products, failedProducts |-> mp.failed,
                     variants |-> mv.variants, failedVariants |-> mv.failed]
    /\ mpc' = "shop"
    /\ RetryEnter("shop", 0)
    /\ UNCHANGED <<argv, shopAnswer, normalizedDomain, detection, shopInfo, authResult,
                   deleteResult, scrapeError, exitCode>>
    /\ UNCHANGED <<scrapeVars, syncVars>>

\* getShopInfo returned info: steps 7 and 8 assemble the output, scrapeShopifyStore
\* returns it and main calls authenticateWithSupabase
AssembleAndAuthenticate(info) ==
    /\ shopInfo' = info
    /\ data' = [store |-> StoreData(normalizedDomain, info, OptionalArg(argv, 4),
                                    OptionalArg(argv, 5)),
                products |-> mapped.products,
                product_variants |-> mapped.variants]
    /\ mpc' = "auth"
    /\ rstat' = "idle"
    /\ trace' = Append(trace, CallEvent("auth", 0, 1))
    /\ inflight' = inflight \cup {AuthRequest}
    /\ failures' = failures
    /\ UNCHANGED <<maxRetries, attempt, lastError, rop, rval>>
    /\ UNCHANGED <<i, productBatch, variantBatch, totalProductsCreated,
                   totalVariantsCreated, allErrors, storeId, sent, answers, ypc,
                   syncResult>>

\* how the /shop.json request ended, and the body it brought
ShopAnswer(stat, body) == [stat |-> stat, body |-> body]

\* mutant: the currency of the body is taken as it is
ShopCurrency_Raw(body) == body.currency

\* const currency = shop.currency || 'USD'
ShopCurrency(body) == OrElse(body.currency, "USD")

\* the /shop.json request settled: fallback when it failed or has no shop,
\* else the branding query is sent
MainOnShop ==
    /\ mpc = "shop"
    /\ rop = "shop"
    /\ \/ /\ rstat = "thrown"
          /\ shopAnswer' = ShopAnswer("thrown", ShopBody(FALSE, ""))
          /\ AssembleAndAuthenticate(FallbackShopInfo)
       \/ /\ rstat = "returned"
          /\ shopAnswer' = ShopAnswer("returned", rval)
          /\ IF ~rval.hasShop
               THEN AssembleAndAuthenticate(FallbackShopInfo)
               ELSE /\ shopInfo' = [currency |-> ShopCurrency(rval),
                                    logo_url |-> "", description |-> ""]
                    /\ mpc' = "branding"
                    /\ RetryEnter("branding", 0)
                    /\ UNCHANGED syncVars
    /\ UNCHANGED <<argv, normalizedDomain, detection, mapped, authResult,
                   deleteResult, scrapeError, exitCode>>
    /\ UNCHANGED scrapeVars

\* the branding query settled: getShopBranding never throws
MainOnBranding ==
    /\ mpc = "branding"
    /\ rop = "branding"
    /\ \/ /\ rstat = "thrown"
          /\ AssembleAndAuthenticate([shopInfo EXCEPT !.logo_url = "",
                                                     !.description = ""])
       \/ /\ rstat = "returned"
          /\ AssembleAndAuthenticate(
               [shopInfo EXCEPT !.logo_url = Branding(rval).logo_url,
                                !.description = Branding(rval).description])
    /\ UNCHANGED <<argv, shopAnswer, normalizedDomain, detection, mapped, authResult,
                   deleteResult, scrapeError, exitCode>>
    /\ UNCHANGED scrapeVars

\* how signInWithPassword can settle: an error, a session without access
\* token, a session with one, or a rejection
AuthOutcomes == {"error", "notoken", "token", "thrown"}

\* what authenticateWithSupabase returns for an outcome of signInWithPassword
authenticateWithSupabase(outcome) ==
    CASE outcome = "error" ->
           [success |-> FALSE, token |-> "", error |-> "Invalid login credentials"]
      [] outcome = "notoken" ->
           [success |-> FALSE, token |-> "", error |-> "No access token received"]
      [] outcome = "token" ->
           [success |-> TRUE, token |-> "jwt", error |-> ""]
      [] OTHER ->
           [success |-> FALSE, token |-> "", error |-> ErrorMessage("network")]

\* mutant: the result of the authentication is not looked at
AuthFailed_Ignored(res) == FALSE

\* if (!authResult.success)
AuthFailed(res) == ~res.success

\* authenticateWithSupabase settled: failure exits, success starts the sync
\* (scrape mode) or the delete request (delete mode)
MainOnAuth ==
    /\ mpc \in {"auth", "authDelete"}
    /\ \E outcome \in AuthOutcomes :
         /\ authResult' = authenticateWithSupabase(outcome)
         /\ IF AuthFailed(authenticateWithSupabase(outcome))
              THEN /\ Exit(1)
                   /\ inflight' = AfterAuth(inflight)
                   /\ failures' = failures
                   /\ UNCHANGED <<maxRetries, attempt, lastError, rstat, rop, rval,
                                  trace, syncVars>>
            ELSE IF mpc = "auth"
              THEN /\ mpc' = "sync"
                   /\ SyncLoop(0, <<>>, 0, 0, 0)
                   /\ UNCHANGED <<answers, exitCode>>
            ELSE /\ mpc' = "delete"
                 /\ RetryEnter("delete", 0)
                 /\ UNCHANGED <<syncVars, exitCode>>
    /\ UNCHANGED <<argv, shopAnswer, normalizedDomain, detection, mapped, shopInfo,
                   deleteResult, scrapeError>>
    /\ UNCHANGED scrapeVars

\* mutant: the outcome of the sync is not looked at
SyncExitCode_Zero(res) == 0

\* if (!syncResult.success) process.exit(1); ... process.exit(0)
SyncExitCode(res) == IF res.success THEN 0 ELSE 1

\* syncScrapedStoreAndProducts returned: exit 0 on success, 1 otherwise
MainAfterSync ==
    /\ mpc = "sync"
    /\ ypc = "done"
    /\ Exit(SyncExitCode(syncResult))
    /\ UNCHANGED <<argv, shopAnswer, normalizedDomain, detection, mapped, shopInfo, authResult,
                   deleteResult, scrapeError>>
    /\ UNCHANGED <<retryVars, scrapeVars, syncVars>>

\* mutant: the outcome of the delete is not looked at
DeleteExitCode_Zero(res) == 0

\* if (!deleteResult.success) process.exit(1); ... process.exit(0)
DeleteExitCode(res) == IF res.success THEN 0 ELSE 1

\* the delete request settled: deleteStoreById returns and main exits
MainOnDelete ==
    /\ mpc = "delete"
    /\ rop = "delete"
    /\ rstat \in {"returned", "thrown"}
    /\ LET res == IF rstat = "thrown"
                    THEN [success |-> FALSE,
                          message |-> "Delete error: " \o
                              ErrorMessage(ThrownError(lastError, RetryName(rop)).kind)]
                    ELSE DeleteOutcome(rval, argv[2])
       IN /\ deleteResult' = res
          /\ Exit(DeleteExitCode(res))
    /\ rstat' = "idle"
    /\ UNCHANGED <<maxRetries, attempt, lastError, rop, rval, trace, inflight, failures>>
    /\ UNCHANGED <<argv, shopAnswer, normalizedDomain, detection, mapped, shopInfo, authResult,
                   scrapeError>>
    /\ UNCHANGED <<scrapeVars, syncVars>>

\* ------------------------------------------------------------ initial states
RetryIdle ==
    /\ attempt = 0
    /\ lastError = UnknownError
    /\ rstat = "idle"
    /\ rval = None
    /\ trace = <<>>
    /\ inflight = {}
    /\ failures = <<>>

ScrapeIdle ==
    /\ page = 0
    /\ hasMore = FALSE
    /\ allProducts = <<>>
    /\ allVariants = <<>>
    /\ failedProducts = <<>>
    /\ spc = "idle"
    /\ scraperResult = EmptyResult

EmptyData == [store |-> None, products |-> <<>>, product_variants |-> <<>>]

SyncIdle ==
    /\ i = 0
    /\ productBatch = <<>>
    /\ variantBatch = <<>>
    /\ totalProductsCreated = 0
    /\ totalVariantsCreated = 0
    /\ allErrors = <<>>
    /\ storeId = 0
    /\ sent = <<>>
    /\ answers = <<>>
    /\ ypc = "idle"
    /\ syncResult = None

NoAuthResult == [success |-> FALSE, token |-> "", error |-> ""]
NoShopAnswer == [stat |-> "none", body |-> ShopBody(FALSE, "")]
NoShopInfo == [currency |-> "", logo_url |-> "", description |-> ""]
NoMapped == [products |-> <<>>, failedProducts |-> <<>>, variants |-> <<>>,
             failedVariants |-> <<>>]

\* no CLI run: the function under study is called directly
MainIdle ==
    /\ argv = <<>>
    /\ mpc = "none"
    /\ normalizedDomain = <<>>
    /\ detection = [isShopify |-> FALSE, error |-> ""]
    /\ mapped = NoMapped
    /\ shopInfo = NoShopInfo
    /\ shopAnswer = NoShopAnswer
    /\ authResult = NoAuthResult
    /\ deleteResult = [success |-> FALSE, message |-> ""]
    /\ scrapeError = ""
    /\ exitCode = -1

\* ---- a stand-alone retryWithBackoff call
InitRetry ==
    /\ maxRetries \in 1..RetryMaxAttempts
    /\ rop = "op"
    /\ RetryIdle
    /\ feed = <<>>
    /\ ScrapeIdle
    /\ data = EmptyData
    /\ SyncIdle
    /\ MainIdle

NextRetry == Call \/ Settle \/ Wake

SpecRetry == InitRetry /\ [][NextRetry]_vars

\* ---- a run of scrapeShopifyProducts against a storefront
InitScrape ==
    /\ maxRetries \in 1..MaxAttempts
    /\ rop = "page"
    /\ RetryIdle
    /\ feed \in [1..MaxPages -> PageKinds]
    /\ ScrapeIdle
    /\ data = EmptyData
    /\ SyncIdle
    /\ MainIdle

NextScrape ==
    ScrapeStart \/ Settle \/ Wake \/ ScrapeOnResponse \/ ScrapeAfterDelay
      \/ ScrapeOnFailure

SpecScrape == InitScrape /\ [][NextScrape]_vars

\* ---- a run of syncScrapedStoreAndProducts on a Scrape Output
MappedProduct(id) == [shopify_id |-> ToString(id), title |-> "t"]
MappedVariant(vid, pid) ==
    [shopify_variant_id |-> ToString(vid), shopify_product_id |-> ToString(pid),
     title |-> "v", price |-> "10.00",
     inventory_quantity |-> [nan |-> FALSE, tenths |-> 0],
     weight |-> NullWeight, weight_unit |-> "kg"]

\* n products with the identifiers 1..n
ProductList(n) == [k \in 1..n |-> MappedProduct(k)]

\* variants of the first product, of the last one, and of the products on both
\* sides of the first batch boundary, not in product order
VariantList(n) ==
    IF n = 0 THEN <<>>
    ELSE << MappedVariant(1, n), MappedVariant(2, 1), MappedVariant(3, BATCH_SIZE + 1),
            MappedVariant(4, BATCH_SIZE), MappedVariant(5, 1) >>

StoreRecord ==
    [display_name |-> <<"S","h","o","p">>, store_handle |-> <<"s","h","o","p">>,
     store_url |-> <<"s","h","o","p",".","c","o","m">>, default_currency |-> "USD",
     supported_currencies |-> <<"USD">>, logo_url |-> "", description |-> ""]

SyncInputs ==
    { [store |-> StoreRecord, products |-> ProductList(n),
       product_variants |-> IF withVariants THEN VariantList(n) ELSE <<>>] :
         n \in 0..MaxProducts, withVariants \in BOOLEAN }

InitSync ==
    /\ maxRetries \in 1..MaxAttempts
    /\ rop = "batch"
    /\ RetryIdle
    /\ feed = <<>>
    /\ ScrapeIdle
    /\ data \in SyncInputs
    /\ SyncIdle
    /\ MainIdle

NextSync == SyncStart \/ Settle \/ Wake \/ SyncOnResponse \/ SyncOnFailure

SpecSync == InitSync /\ [][NextSync]_vars

\* ---- a run of the CLI: main() on a command line, against a storefront
ShopCom == <<"s","h","o","p",".","c","o","m">>
DecoratedShopCom ==
    <<"h","t","t","p","s",":","/","/","w","w","w",".","M","y","-","S","h","o","p",
      ".","c","o","m",":","8","0","/","x">>
UpperProtocol == <<"H","T","T","P","S",":","/","/">> \o ShopCom
NotADomain == <<"n","o","t"," ","a"," ","d","o","m","a","i","n">>
Localhost == <<"l","o","c","a","l","h","o","s","t">>

CommandLines ==
    { <<>>,
      <<ShopCom, "me@x">>,
      <<ShopCom, "me@x", "pw">>,
      <<DecoratedShopCom, "me@x", "pw", "cli-logo", "cli-desc">>,
      <<NotADomain, "me@x", "pw">>,
      <<Localhost, "me@x", "pw", "cli-logo">>,
      <<UpperProtocol, "me@x", "pw">>,
      <<<<>>, "me@x", "pw">>,
      <<DeleteCommand, "7">>,
      <<DeleteCommand, "7", "me@x", "pw">> }

InitMain ==
    /\ maxRetries = MaxAttempts
    /\ rop = "none"
    /\ RetryIdle
    /\ feed \in [1..MainPages -> PageKinds]
    /\ ScrapeIdle
    /\ data = EmptyData
    /\ SyncIdle
    /\ argv \in CommandLines
    /\ mpc = "start"
    /\ normalizedDomain = <<>>
    /\ detection = [isShopify |-> FALSE, error |-> ""]
    /\ mapped = NoMapped
    /\ shopInfo = NoShopInfo
    /\ shopAnswer = NoShopAnswer
    /\ authResult = NoAuthResult
    /\ deleteResult = [success |-> FALSE, message |-> ""]
    /\ scrapeError = ""
    /\ exitCode = -1

NextMain ==
    MainStart \/ Settle \/ Wake \/ MainOnDetect
      \/ ScrapeOnResponse \/ ScrapeAfterDelay \/ ScrapeOnFailure
      \/ MainAfterScrape \/ MainOnShop \/ MainOnBranding \/ MainOnAuth
      \/ SyncOnResponse \/ SyncOnFailure \/ MainAfterSync \/ MainOnDelete

SpecMain == InitMain /\ [][NextMain]_vars

\* ---- the list mappers applied to lists of raw records
SampleProducts ==
    { Product(1, "t", TRUE, <<>>), Product(2, "", TRUE, <<>>),
      Product(0, "u", TRUE, <<>>), Product(0, "", TRUE, <<>>) }
SampleVariants ==
    { Variant(101, "v", 1, "10.00"), Variant(0, "v", 1, "10.00"),
      Variant(103, "", 1, "0"), Variant(104, "w", 2, "abc"),
      Variant(105, "x", 2, "-5") }
SeqsUpTo(S, n) == UNION { [1..k -> S] : k \in 0..n }

InitMap ==
    /\ maxRetries = 1
    /\ rop = "none"
    /\ RetryIdle
    /\ feed = <<>>
    /\ page = 0
    /\ hasMore = FALSE
    /\ allProducts = <<>>
    /\ allVariants = <<>>
    /\ failedProducts = <<>>
    /\ spc = "done"
    /\ \E ps \in SeqsUpTo(SampleProducts, MaxRecords),
          vs \in SeqsUpTo(SampleVariants, MaxRecords) :
         scraperResult = [products |-> ps, variants |-> vs, failedProducts |-> <<>>,
                          totalPages |-> 1]
    /\ data = EmptyData
    /\ SyncIdle
    /\ argv = <<>>
    /\ mpc = "map"
    /\ normalizedDomain = <<>>
    /\ detection = [isShopify |-> FALSE, error |-> ""]
    /\ mapped = NoMapped
    /\ shopInfo = NoShopInfo
    /\ shopAnswer = NoShopAnswer
    /\ authResult = NoAuthResult
    /\ deleteResult = [success |-> FALSE, message |-> ""]
    /\ scrapeError = ""
    /\ exitCode = -1

\* steps 4 and 5 of scrapeShopifyStore on their own
MapAll ==
    /\ mpc = "map"
    /\ LET mp == mapAllProducts(scraperResult.products)
           mv == mapAllVariants(scraperResult.variants)
       IN mapped' = [products |-> mp.products, failedProducts |-> mp.failed,
                     variants |-> mv.variants, failedVariants |-> mv.failed]
    /\ mpc' = "mapped"
    /\ UNCHANGED <<argv, shopAnswer, normalizedDomain, detection, shopInfo, authResult,
                   deleteResult, scrapeError, exitCode>>
    /\ UNCHANGED <<retryVars, scrapeVars, syncVars>>

NextMap == MapAll

SpecMap == InitMap /\ [][NextMap]_vars

\* ---- the variant mapper applied to one raw variant, or to two
VariantIds == {0, 101}
VariantTitles == {"", "v"}
VariantPrices == {"10.00", "0", "-5", "abc", "10abc"}
VariantWeights == {NoWeight, Weight(0), Weight(-5), Weight(2), Weight(50)}
VariantUnits == {"", "g", "grams", "kg", "lb", "oz", "stone"}
VariantQuantities ==
    {NoQuantity, NumQuantity(0), NumQuantity(70), NumQuantity(25), NumQuantity(-10),
     StrQuantity("5"), StrQuantity("5abc"), StrQuantity("-3"), StrQuantity("abc")}

\* raw variants that differ in the validated fields, with the defaults elsewhere
ValidatedInputs ==
    { Variant(id, t, 1, p) : id \in VariantIds, t \in VariantTitles, p \in VariantPrices }

\* raw variants that pass the id and title checks and differ in the other fields
ConvertedInputs ==
    { [Variant(101, "v", 1, p) EXCEPT !.weight = w, !.weight_unit = u,
                                      !.inventory_quantity = q] :
        p \in {"10.00", "abc"}, w \in VariantWeights, u \in VariantUnits,
        q \in VariantQuantities }

VariantLists ==
    { <<v>> : v \in ValidatedInputs \cup ConvertedInputs }
      \cup { <<v, w>> : v \in ValidatedInputs, w \in ValidatedInputs }

InitMapVariant ==
    /\ maxRetries = 1
    /\ rop = "none"
    /\ RetryIdle
    /\ feed = <<>>
    /\ page = 0
    /\ hasMore = FALSE
    /\ allProducts = <<>>
    /\ allVariants = <<>>
    /\ failedProducts = <<>>
    /\ spc = "done"
    /\ \E vs \in VariantLists :
         scraperResult = [products |-> <<>>, variants |-> vs, failedProducts |-> <<>>,
                          totalPages |-> 1]
    /\ data = EmptyData
    /\ SyncIdle
    /\ argv = <<>>
    /\ mpc = "map"
    /\ normalizedDomain = <<>>
    /\ detection = [isShopify |-> FALSE, error |-> ""]
    /\ mapped = NoMapped
    /\ shopInfo = NoShopInfo
    /\ shopAnswer = NoShopAnswer
    /\ authResult = NoAuthResult
    /\ deleteResult = [success |-> FALSE, message |-> ""]
    /\ scrapeError = ""
    /\ exitCode = -1

NextMapVariant == MapAll

SpecMapVariant == InitMapVariant /\ [][NextMapVariant]_vars

\* ---- normalizeDomain applied to decorated hostnames and to other inputs
MyShopCo == <<"m","y","-","s","h","o","p",".","c","o">>
Hosts == {ShopCom, MyShopCo}
ToUpperCase(s) == [k \in 1..Len(s) |-> UpperChar(s[k])]
HostCases(h) == {h, Capitalize(h), ToUpperCase(h)}
Protocols ==
    { <<>>, <<"h","t","t","p","s",":","/","/">>, <<"h","t","t","p",":","/","/">>,
      <<"H","T","T","P","S",":","/","/">> }
WwwPrefixes == { <<>>, <<"w","w","w",".">>, <<"W","W","W",".">> }
Ports == { <<>>, <<":","8","0">> }
Suffixes == { <<>>, <<"/">>, <<"/","x","?","y","=","1">>, <<"?","y","=","1">> }
Blanks == { <<>>, <<" ">> }

\* every decoration of a host, with the host and the decorations it was made of
DecorationsOf(h) ==
    { [input |-> lead \o proto \o www \o hc \o port \o suffix \o trail,
       host |-> h, lead |-> lead, proto |-> proto, www |-> www, suffix |-> suffix] :
        lead \in Blanks, proto \in Protocols, www \in WwwPrefixes,
        hc \in HostCases(h), port \in Ports, suffix \in Suffixes, trail \in Blanks }
DecoratedInputs == UNION { DecorationsOf(h) : h \in Hosts }

\* inputs that are not a hostname whatever is stripped
OtherInputs ==
    { <<>>, NotADomain, Localhost, <<"-","s","h","o","p",".","c","o","m">>,
      <<"s","h","o","p",".","c">>, <<"h","t","t","p","s",":","/","/">> }

NormalizerInputs == { r.input : r \in DecoratedInputs } \cup OtherInputs

InitNormalize ==
    /\ maxRetries = 1
    /\ rop = "none"
    /\ RetryIdle
    /\ feed = <<>>
    /\ ScrapeIdle
    /\ data = EmptyData
    /\ SyncIdle
    /\ \E input \in NormalizerInputs : argv = <<input>>
    /\ mpc = "normalize"
    /\ normalizedDomain = <<>>
    /\ detection = [isShopify |-> FALSE, error |-> ""]
    /\ mapped = NoMapped
    /\ shopInfo = NoShopInfo
    /\ shopAnswer = NoShopAnswer
    /\ authResult = NoAuthResult
    /\ deleteResult = [success |-> FALSE, message |-> ""]
    /\ scrapeError = ""
    /\ exitCode = -1

\* step 1 of scrapeShopifyStore on its own: normalizeDomain(domain) returns the
\* hostname or throws, and the catch reports the message
Normalize ==
    /\ mpc = "normalize"
    /\ mpc' = "normalized"
    /\ LET nd == normalizeDomain(argv[1]) IN
         IF DomainAccepted(nd)
           THEN /\ normalizedDomain' = nd.value
                /\ UNCHANGED scrapeError
           ELSE /\ scrapeError' = "Invalid domain format: " \o Str(nd.value)
                /\ UNCHANGED normalizedDomain
    /\ UNCHANGED <<argv, shopAnswer, detection, mapped, shopInfo, authResult,
                   deleteResult, exitCode>>
    /\ UNCHANGED <<retryVars, scrapeVars, syncVars>>

NextNormalize == Normalize

SpecNormalize == InitNormalize /\ [][NextNormalize]_vars

\* ---- the two places a record is validated: a scrape run, or the list
\* mappers on lists of raw records
InitScrapeOrMap == InitScrape \/ InitMap

NextScrapeOrMap == NextScrape \/ MapAll

SpecScrapeOrMap == InitScrapeOrMap /\ [][NextScrapeOrMap]_vars

\* -------------------------------------------------------------------
\* Properties
\* -------------------------------------------------------------------
IsCall(e)  == e.ev = "call"
IsSleep(e) == e.ev = "sleep"
IsDelay(e) == e.ev = "delay"
CallsOf(op) == SelectSeq(trace, LAMBDA e : IsCall(e) /\ e.op = op)
NumCalls == Len(SelectSeq(trace, IsCall))
NumSleeps == Len(SelectSeq(trace, IsSleep))
LastEvent == trace[Len(trace)]
Iota(n) == [k \in 1..n |-> k]
\* the page numbers of the first attempts, in the order they were made
FetchedPages ==
    LET first == SelectSeq(trace, LAMBDA e : IsCall(e) /\ e.op = "page" /\ e.n = 1)
    IN [k \in 1..Len(first) |-> first[k].arg]
\* a retry of a page fetch asks for the page of the attempt before it
RetriesSamePage ==
    \A k \in 1..Len(trace) :
        (IsCall(trace[k]) /\ trace[k].n > 1) =>
            /\ k > 2
            /\ IsSleep(trace[k - 1])
            /\ IsCall(trace[k - 2])
            /\ trace[k - 2].arg = trace[k].arg
            /\ trace[k - 2].n + 1 = trace[k].n

\* ---- what the storefront served, stated on the feed
Served(k) == IF k \in DOMAIN feed THEN PageBody(feed[k], k) ELSE PageBody("empty", k)
IsEmptyPage(k) == k \notin DOMAIN feed \/ feed[k] \in {"absent", "empty"}
RECURSIVE PagesProducts(_)
PagesProducts(K) ==
    IF K <= 0 THEN <<>> ELSE PagesProducts(K - 1) \o Served(K).products
HasTitle(p) == p.title # ""
IsValidVariant(v) == v.id # 0 /\ v.title # ""
RECURSIVE ValidVariantsOf(_)
ValidVariantsOf(ps) ==
    IF Len(ps) = 0 THEN <<>>
    ELSE (IF Head(ps).variantsIsArray
            THEN SelectSeq(Head(ps).variants, IsValidVariant) ELSE <<>>)
         \o ValidVariantsOf(Tail(ps))
TitleFailures(ps) ==
    [k \in 1..Len(SelectSeq(ps, LAMBDA p : ~HasTitle(p))) |->
        [title |-> "Unknown", error |-> "Product missing title"]]

\* scrape returned because the retry helper threw / because a page was empty
StoppedByFailure == spc = "done" /\ attempt > maxRetries
StoppedAtEmpty   == spc = "done" /\ attempt <= maxRetries

\* C1: when the fetch of page N fails on every attempt, scrape returns (it does
\* not raise), has fetched the pages 1..N and no later page, and returns exactly
\* the products, variants and failures of the pages 1..N-1, with totalPages N-1.
C1_PageFailureKeepsPartial ==
    StoppedByFailure =>
        LET N == LastEvent.arg IN
        /\ IsCall(LastEvent) /\ LastEvent.n = maxRetries
        /\ FetchedPages = Iota(N)
        /\ Len(CallsOf("page")) = NumCalls
        /\ scraperResult.products = SelectSeq(PagesProducts(N - 1), HasTitle)
        /\ scraperResult.variants =
             ValidVariantsOf(SelectSeq(PagesProducts(N - 1), HasTitle))
        /\ scraperResult.failedProducts = TitleFailures(PagesProducts(N - 1))
        /\ scraperResult.totalPages = N - 1

C1_Witness ==
    /\ StoppedByFailure
    /\ LastEvent.arg = 3
    /\ Len(scraperResult.variants) > 0
    /\ Len(scraperResult.failedProducts) > 0

\* the order of the fetches and the stopping page, common to both forms of C2
C2_Pagination(K) ==
    /\ FetchedPages = Iota(K)
    /\ RetriesSamePage
    /\ IsEmptyPage(K)
    /\ \A k \in 1..(K - 1) : ~IsEmptyPage(k)
    /\ scraperResult.products = SelectSeq(PagesProducts(K - 1), HasTitle)
    /\ scraperResult.totalPages = K - 1

\* C2 (as stated): scrape fetches the pages 1, 2, ... in order, each once, stops
\* at the first page K without products, and the result holds every titled
\* product and every valid variant of the pages 1..K-1.
C2_EveryValidVariant ==
    StoppedAtEmpty =>
        /\ C2_Pagination(LastEvent.arg)
        /\ scraperResult.variants = ValidVariantsOf(PagesProducts(LastEvent.arg - 1))

\* C2 (amended): as above, but the variants kept are the valid variants of the
\* titled products only.
C2_ValidVariantsOfTitled ==
    StoppedAtEmpty =>
        /\ C2_Pagination(LastEvent.arg)
        /\ scraperResult.variants =
             ValidVariantsOf(SelectSeq(PagesProducts(LastEvent.arg - 1), HasTitle))

C2_Witness ==
    /\ StoppedAtEmpty
    /\ LastEvent.arg = 3
    /\ feed[1] = "mixed"
    /\ feed[2] = "plain"
    /\ NumSleeps > 0

\* ---- sync: what the remote answered, stated on the history of answers
NumBatches == (Len(data.products) + BATCH_SIZE - 1) \div BATCH_SIZE
IsBadAnswer(a) == Len(a.gqlErrors) > 0 \/ ~a.hasMutation \/ ~a.mutation.success
BadText(a) ==
    IF Len(a.gqlErrors) > 0 THEN "denied, again"
    ELSE IF ~a.hasMutation THEN "No mutation result"
    ELSE a.mutation.message
\* the error strings batch k leaves in the error list
ErrorsOfAnswer(k) ==
    IF IsBadAnswer(answers[k])
      THEN << "Batch " \o ToString(k) \o ": " \o BadText(answers[k]) >>
      ELSE answers[k].mutation.errors
RECURSIVE ErrorsUpTo(_)
ErrorsUpTo(k) == IF k = 0 THEN <<>> ELSE ErrorsUpTo(k - 1) \o ErrorsOfAnswer(k)
RECURSIVE CreatedUpTo(_, _)
CreatedUpTo(k, field) ==
    IF k = 0 THEN 0
    ELSE CreatedUpTo(k - 1, field)
         + (IF IsBadAnswer(answers[k]) THEN 0
            ELSE IF field = "products" THEN answers[k].mutation.productsCreated
            ELSE answers[k].mutation.variantsCreated)
SyncReturned == ypc = "done"
\* the last call of the retry helper threw (attempt ran past maxRetries)
RequestExhausted == attempt > maxRetries

\* C3: a batch answered with a GraphQL error, without a mutation result or with
\* success = false leaves exactly one error string for that batch, adds nothing
\* to the created totals, and every batch after it is still submitted.
C3_BadBatchRecordedAndRunContinues ==
    /\ allErrors = ErrorsUpTo(Len(answers))
    /\ totalProductsCreated = CreatedUpTo(Len(answers), "products")
    /\ totalVariantsCreated = CreatedUpTo(Len(answers), "variants")
    /\ (SyncReturned /\ \E k \in 1..Len(answers) : IsBadAnswer(answers[k]))
          => Len(sent) = NumBatches

\* C4: when the request of batch k fails on every attempt, every batch after k
\* is still submitted and the returned result carries the store identifier,
\* the created totals and the errors of the whole run.
C4_ExhaustedBatchNeverAborts ==
    (SyncReturned /\ RequestExhausted) =>
        /\ Len(sent) = NumBatches
        /\ syncResult.hasResult
        /\ syncResult.result.errors = allErrors
        /\ syncResult.result.productsCreated = totalProductsCreated

\* C5: sync returns success = true if and only if the error list aggregated
\* over the batches of the run is empty (a batch the remote reports successful
\* with productsCreated = 0 and no errors leaves the run successful).
C5_SuccessIffNoErrors ==
    SyncReturned => (syncResult.success <=> Len(allErrors) = 0)

\* ---- sync: the batches, stated on the history of submitted mutations
CeilDiv(n, d) == (n + d - 1) \div d
RECURSIVE ConcatProducts(_)
ConcatProducts(k) ==
    IF k = 0 THEN <<>> ELSE ConcatProducts(k - 1) \o sent[k].products
\* sync went through its whole loop and returned the summary
SyncCompleted == ypc = "done" /\ syncResult.hasResult

\* C6: the product list is cut, in order, into ceil(n/20) consecutive batches of
\* 20 products, the last holding the remaining 1..20: every product is in
\* exactly one batch, no batch has more than 20, and 45 products give 20, 20, 5.
C6_BatchesPartitionProducts ==
    LET n == Len(data.products) IN
    /\ \A k \in 1..Len(sent) :
          /\ Len(sent[k].products) >= 1
          /\ Len(sent[k].products) <= 20
          /\ k < CeilDiv(n, 20) => Len(sent[k].products) = 20
          /\ \A j \in 1..Len(sent[k].products) :
                sent[k].products[j] = data.products[20 * (k - 1) + j]
    /\ Len(sent) <= CeilDiv(n, 20)
    /\ SyncCompleted =>
          /\ Len(sent) = CeilDiv(n, 20)
          /\ ConcatProducts(Len(sent)) = data.products
          /\ n = 45 => /\ Len(sent) = 3
                       /\ Len(sent[1].products) = 20
                       /\ Len(sent[2].products) = 20
                       /\ Len(sent[3].products) = 5

C6_Witness ==
    /\ SyncCompleted
    /\ Len(data.products) = 45
    /\ Len(sent) = 3

\* C7: the variants sent with a batch are exactly the variants of the Scrape
\* Output whose shopify_product_id is the shopify_id of a product of that
\* batch, in their order: no variant travels without its parent product.
C7_VariantsFollowTheirProduct ==
    \A k \in 1..Len(sent) :
        LET ids == {sent[k].products[j].shopify_id : j \in 1..Len(sent[k].products)}
        IN sent[k].variants =
             SelectSeq(data.product_variants, LAMBDA v : v.shopify_product_id \in ids)

C7_Witness ==
    /\ Len(sent) = 2
    /\ Len(sent[1].variants) = 3
    /\ Len(sent[2].variants) = 2

\* ---- retry
\* the k-th event of a finished or running call: call 1, sleep, call 2, sleep, ...
AlternatesCallSleep ==
    \A k \in 1..Len(trace) :
        IF k % 2 = 1
          THEN IsCall(trace[k]) /\ trace[k].n = (k + 1) \div 2
          ELSE IsSleep(trace[k]) /\ trace[k].n = k \div 2

\* C8: retry invokes the operation one attempt at a time; it returns the value
\* of the first attempt that succeeds and makes no further attempt; when the
\* attempts 1..maxAttempts all fail it raises the error of attempt maxAttempts;
\* the operation is never invoked more than maxAttempts times.
C8_AttemptsSequentialAndBounded ==
    /\ NumCalls <= maxRetries
    /\ \A k \in 1..Len(trace) : IsCall(trace[k]) => trace[k].n = Len(SelectSeq(SubSeq(trace, 1, k), IsCall))
    /\ rstat = "inflight" => NumCalls = attempt
    /\ rstat = "returned" =>
          /\ rval \in {"v1", "v2"}
          /\ NumCalls = attempt
          /\ IsCall(LastEvent)
          /\ NumSleeps = NumCalls - 1
    /\ rstat = "thrown" =>
          /\ NumCalls = maxRetries
          /\ lastError.at = maxRetries
          /\ lastError.kind \in {"network", "timeout", "http404"}
          /\ IsCall(LastEvent)

C8_Witness ==
    /\ rstat = "thrown"
    /\ maxRetries = 3
    /\ lastError = [kind |-> "timeout", at |-> 3]

\* C9: between failed attempt k and attempt k+1 (k < maxAttempts) retry sleeps
\* exactly 2^(k-1) * 1000 ms; it never sleeps before attempt 1, after a
\* successful attempt or after the final failed attempt.
C9_BackoffSchedule ==
    /\ AlternatesCallSleep
    /\ \A k \in 1..Len(trace) :
          IsSleep(trace[k]) =>
             /\ trace[k].n < maxRetries
             /\ trace[k].arg = <<1000, 2000, 4000, 8000, 16000, 32000>>[trace[k].n]
    /\ rstat \in {"returned", "thrown"} => IsCall(LastEvent)
    /\ rstat = "sleeping" => IsSleep(LastEvent) /\ LastEvent.n = attempt

C9_Witness ==
    /\ rstat = "returned"
    /\ NumSleeps = 3
    /\ trace[6].arg = 4000

\* ---- what the command line asks for, stated on argv
\* a scrape command line whose domain the validation pattern does not accept
RejectedInputs ==
    { l[1] : l \in { c \in CommandLines :
                       Len(c) >= 1 /\ ~isValidDomain(Normalized(c[1])) } }
DomainRejected ==
    /\ mpc # "none"
    /\ Len(argv) >= 3
    /\ argv[1] # DeleteCommand
    /\ argv[1] \in RejectedInputs

\* C10: when the domain of the command line is rejected by the normalizer, the
\* run fails (exit code 1, error 'Invalid domain format: ...') and no request of
\* any kind was issued: no detection, page fetch, shop-info, branding,
\* authentication call and no sync batch, and no retry loop was entered
C10_InvalidDomainNoRequest ==
    DomainRejected =>
        /\ trace = <<>>
        /\ sent = <<>>
        /\ answers = <<>>
        /\ rstat = "idle"
        /\ spc = "idle"
        /\ ypc = "idle"
        /\ mpc \in {"start", "exit"}
        /\ mpc = "exit" =>
              /\ exitCode = 1
              /\ scrapeError = "Invalid domain format: " \o Str(Normalized(argv[1]))
              /\ ~authResult.success
              /\ data = EmptyData

C10_Witness ==
    /\ DomainRejected
    /\ argv[1] = NotADomain
    /\ mpc = "exit"
    /\ exitCode = 1
    /\ scrapeError = "Invalid domain format: not a domain"

\* ---- the stages of a scrape run, read off the request history
ScrapeMode == mpc # "none" /\ Len(argv) >= 3 /\ argv[1] # DeleteCommand
StageRank(op) ==
    CASE op = "detect"   -> 1
      [] op = "page"     -> 2
      [] op = "shop"     -> 3
      [] op = "branding" -> 4
      [] op = "auth"     -> 5
      [] op = "batch"    -> 6
      [] OTHER           -> 0
Requested(op) == \E k \in 1..Len(trace) : IsCall(trace[k]) /\ trace[k].op = op
StagesAscend ==
    \A k \in 1..(Len(trace) - 1) :
        StageRank(trace[k].op) <= StageRank(trace[k + 1].op)
DetectReportedFalse == ~detection.isShopify /\ detection.error # ""

\* C11: a scrape run goes through normalize, detect, scrape, map products, map
\* variants, shop info, assemble in this order, each stage starting after the
\* one before it completed; when detect reports isShopify = false the run
\* fails with the detector's message, with no page fetch and no shop-info request
C11_StagesInOrder ==
    ScrapeMode =>
        /\ StagesAscend
        /\ Requested("detect") =>
              /\ normalizedDomain # <<>>
              /\ normalizedDomain \notin RejectedInputs
        /\ Requested("page") => detection.isShopify
        /\ Requested("shop") => spc = "done"
        /\ mpc = "shop" =>
              /\ mapped.products = mapAllProducts(scraperResult.products).products
              /\ mapped.variants = mapAllVariants(scraperResult.variants).variants
        /\ mapped # NoMapped => spc = "done"
        /\ data # EmptyData =>
              /\ Requested("shop")
              /\ rop \in {"shop", "branding", "batch"}
              /\ shopInfo # NoShopInfo
              /\ data.store.default_currency = shopInfo.currency
              /\ data.products = mapped.products
              /\ data.product_variants = mapped.variants
        /\ Requested("auth") => data # EmptyData
        /\ DetectReportedFalse =>
              /\ mpc = "exit"
              /\ exitCode = 1
              /\ scrapeError = detection.error
              /\ ~Requested("page")
              /\ ~Requested("shop")
              /\ ~Requested("branding")
              /\ ~Requested("auth")
              /\ sent = <<>>

C11_Witness ==
    /\ ScrapeMode
    /\ mpc = "sync"
    /\ Requested("detect") /\ Requested("page") /\ Requested("shop")
    /\ Requested("branding") /\ Requested("auth") /\ Requested("batch")
    /\ Len(mapped.products) > 0
    /\ Len(mapped.failedVariants) > 0

\* ---- authentication, read off the request history
DeleteMode == mpc # "none" /\ Len(argv) >= 4 /\ argv[1] = DeleteCommand
AuthSettled == Requested("auth") /\ mpc \notin {"auth", "authDelete"}
WriteSent == Requested("batch") \/ Requested("delete") \/ sent # <<>>
\* every mutation request in the history comes after the authentication call
AuthCallFirst ==
    \A k \in 1..Len(trace) :
        trace[k].op \in {"batch", "delete"} =>
            \E j \in 1..(k - 1) : trace[j].op = "auth"

\* C12: in both CLI modes a sync or delete mutation is sent only after the
\* authentication returned success with a token, and a failed authentication
\* ends the process with exit code 1 and no mutation sent
C12_AuthenticationPrecedesWrites ==
    (ScrapeMode \/ DeleteMode) =>
        /\ WriteSent =>
              /\ AuthSettled
              /\ authResult.success
              /\ authResult.token # ""
              /\ AuthCallFirst
        /\ (AuthSettled /\ ~authResult.success) =>
              /\ mpc = "exit"
              /\ exitCode = 1
              /\ ~WriteSent
              /\ authResult.error # ""
        /\ Len(SelectSeq(trace, LAMBDA e : e.op = "auth")) <= 1

C12_Witness ==
    /\ ScrapeMode
    /\ AuthSettled
    /\ authResult = authenticateWithSupabase("notoken")
    /\ Len(data.products) > 0
    /\ mpc = "exit"
    /\ exitCode = 1
    /\ sent = <<>>

\* ---- the outcome of each stage of the scrape command
ScrapeCommand == mpc # "none" /\ (Len(argv) < 1 \/ argv[1] # DeleteCommand)
PipelineSucceeded == data # EmptyData /\ scrapeError = ""
AuthSucceeded == AuthSettled /\ authResult.success
SyncSucceeded == ypc = "done" /\ syncResult.success

\* C13: the scrape command exits 0 exactly when the scrape pipeline, the
\* authentication and the sync all reported success and 1 otherwise; with fewer
\* than three arguments it exits 1 and no request was issued
C13_ExitCodeOfScrape ==
    (ScrapeCommand /\ mpc = "exit") =>
        /\ exitCode \in {0, 1}
        /\ exitCode = 0 <=> (PipelineSucceeded /\ AuthSucceeded /\ SyncSucceeded)
        /\ Len(argv) < 3 =>
              /\ exitCode = 1
              /\ trace = <<>>
              /\ sent = <<>>
              /\ rstat = "idle"

C13_Witness ==
    /\ ScrapeCommand
    /\ mpc = "exit"
    /\ exitCode = 0
    /\ Len(sent) > 0
    /\ syncResult.result.productsCreated > 0

\* ---- detection that ended in a failure: the retry loop of the detection
\* request threw and nothing was requested afterwards
DetectFailed ==
    /\ ScrapeMode
    /\ mpc = "exit"
    /\ rop = "detect"
    /\ lastError.at = maxRetries
HostText ==
    IF argv[1] = ShopCom THEN "shop.com"
    ELSE IF argv[1] = DecoratedShopCom THEN "my-shop.com"
    ELSE "?"

\* C14: a detection whose last attempt failed with HTTP 404 reports
\* isShopify = false with 'No products.json endpoint found at <host>'; one
\* whose last attempt failed otherwise (network error, timeout, body without a
\* products array) reports isShopify = false with 'Detection failed: <message>'
C14_DetectionFailureMessages ==
    DetectFailed =>
        /\ ~detection.isShopify
        /\ lastError.kind \in {"http404", "network", "timeout", "noarray"}
        /\ lastError.kind = "http404" =>
              detection.error = "No products.json endpoint found at " \o HostText
        /\ lastError.kind = "network" =>
              detection.error = "Detection failed: Network Error"
        /\ lastError.kind = "timeout" =>
              detection.error = "Detection failed: timeout of 30000ms exceeded"
        /\ lastError.kind = "noarray" =>
              detection.error = "Detection failed: Response missing products array"

C14_Witness ==
    /\ DetectFailed
    /\ maxRetries > 1
    /\ lastError.kind = "http404"
    /\ detection.error = "No products.json endpoint found at my-shop.com"
    /\ NumCalls = maxRetries

\* C15: detection reports isShopify = true only when the catalog feed answered
\* with a body whose products field is an array; a body without one is a failed
\* attempt (retried like any other), and when it is the outcome of the last
\* attempt the result is isShopify = false with a 'Detection failed' error
C15_DetectionNeedsProductsArray ==
    ScrapeMode =>
        /\ detection.isShopify =>
              /\ 1 \in DOMAIN feed
              /\ feed[1] \in {"empty", "plain", "mixed"}
        /\ (mpc = "detect" /\ feed[1] = "absent") => rstat # "returned"
        /\ (DetectFailed /\ lastError.kind = "noarray") =>
              /\ feed[1] = "absent"
              /\ ~detection.isShopify
              /\ detection.error = "Detection failed: Response missing products array"
              /\ Len(CallsOf("detect")) = maxRetries
              /\ NumSleeps = maxRetries - 1
              /\ exitCode = 1

C15_Witness ==
    /\ DetectFailed
    /\ feed[1] = "absent"
    /\ lastError.kind = "noarray"
    /\ maxRetries > 1
    /\ Len(CallsOf("detect")) = maxRetries
    /\ ~detection.isShopify

\* ---- getShopInfo has returned to the orchestrator
ShopInfoReturned == ScrapeMode /\ Requested("shop") /\ mpc \notin {"shop", "branding"}
SuppliedCurrency ==
    IF shopAnswer.stat = "returned" /\ shopAnswer.body.hasShop
         /\ shopAnswer.body.currency # ""
      THEN shopAnswer.body.currency
      ELSE "USD"

\* C16: whatever the outcome of the shop-info and branding requests (error on
\* every attempt, timeout, body without a shop, shop without a currency),
\* getShopInfo returns a result and the run goes on to the assembly; the
\* currency of the result is the one the endpoint supplied, 'USD' when it
\* supplied none
C16_ShopInfoAlwaysReturns ==
    /\ (ScrapeMode /\ Requested("shop") /\ mpc = "exit") => Requested("auth")
    /\ ShopInfoReturned =>
          /\ shopAnswer.stat \in {"returned", "thrown"}
          /\ scrapeError = ""
          /\ data # EmptyData
          /\ shopInfo.currency = SuppliedCurrency
          /\ shopInfo.currency # ""
          /\ data.store.default_currency = SuppliedCurrency
          /\ data.store.supported_currencies = <<SuppliedCurrency>>

C16_Witness ==
    /\ ShopInfoReturned
    /\ shopAnswer = ShopAnswer("returned", ShopBody(TRUE, ""))
    /\ rop = "branding"
    /\ lastError.kind = "timeout"
    /\ lastError.at = maxRetries
    /\ mpc = "auth"
    /\ shopInfo = FallbackShopInfo

\* the branding request of this run was answered with a body
BrandingAnswered ==
    /\ rop = "branding"
    /\ mpc = "auth"
    /\ "logo" \in DOMAIN rval

\* C17: the two requests of getShopInfo are independent: the currency returned
\* is the supplied one whether or not the branding request failed, and the
\* branding request is made, and its logo and description returned, whether or
\* not the shop-info request failed
C17_SubFetchesIndependent ==
    ShopInfoReturned =>
        /\ shopInfo.currency = SuppliedCurrency
        /\ Requested("branding")
        /\ BrandingAnswered =>
              /\ shopInfo.logo_url = Branding(rval).logo_url
              /\ shopInfo.description = Branding(rval).description

\* what the code does keep: a failed branding request leaves the currency alone
C17_BrandingFailureKeepsCurrency ==
    (ShopInfoReturned /\ Requested("branding")) =>
        /\ shopInfo.currency = SuppliedCurrency
        /\ BrandingAnswered =>
              /\ shopInfo.logo_url = Branding(rval).logo_url
              /\ shopInfo.description = Branding(rval).description

\* ---- what the list mappers owe each record, stated on the raw records
ProductMappable(p) == p.title # "" /\ p.id # 0
VariantMappable(v) == v.id # 0 /\ v.title # "" /\ v.price \in {"10.00", "0"}
MapInputs == mpc = "mapped"
RawProducts == scraperResult.products
RawVariants == scraperResult.variants
GoodProducts == SelectSeq(RawProducts, ProductMappable)
BadProducts == SelectSeq(RawProducts, LAMBDA p : ~ProductMappable(p))
GoodVariants == SelectSeq(RawVariants, VariantMappable)
BadVariants == SelectSeq(RawVariants, LAMBDA v : ~VariantMappable(v))

\* C18: the list mappers always return; every input record is in exactly one of
\* the two lists (|mapped| + |failed| = |input|), both lists are in input order,
\* and what a record maps to does not depend on the records around it
C18_ListMappersPartition ==
    MapInputs =>
        /\ Len(mapped.products) + Len(mapped.failedProducts) = Len(RawProducts)
        /\ Len(mapped.variants) + Len(mapped.failedVariants) = Len(RawVariants)
        /\ mapped.products =
             [k \in 1..Len(GoodProducts) |->
                [shopify_id |-> ToString(GoodProducts[k].id),
                 title |-> GoodProducts[k].title]]
        /\ Len(mapped.failedProducts) = Len(BadProducts)
        /\ \A k \in 1..Len(BadProducts) :
              mapped.failedProducts[k].title =
                 (IF BadProducts[k].title # "" THEN BadProducts[k].title ELSE "Unknown")
        /\ mapped.variants =
             [k \in 1..Len(GoodVariants) |->
                [shopify_variant_id |-> ToString(GoodVariants[k].id),
                 shopify_product_id |-> ToString(GoodVariants[k].product_id),
                 title |-> GoodVariants[k].title,
                 price |-> GoodVariants[k].price,
                 inventory_quantity |-> [nan |-> FALSE, tenths |-> 0],
                 weight |-> NullWeight, weight_unit |-> "kg"]]
        /\ Len(mapped.failedVariants) = Len(BadVariants)
        /\ \A k \in 1..Len(BadVariants) :
              mapped.failedVariants[k].title =
                 (IF BadVariants[k].title # "" THEN BadVariants[k].title
                  ELSE ToString(BadVariants[k].id))

C18_Witness ==
    /\ MapInputs
    /\ Len(RawProducts) = 3
    /\ ProductMappable(RawProducts[1])
    /\ ~ProductMappable(RawProducts[2])
    /\ ProductMappable(RawProducts[3])
    /\ Len(mapped.products) = 2
    /\ Len(mapped.failedProducts) = 1
    /\ Len(mapped.variants) = 1
    /\ Len(mapped.failedVariants) = 2

\* ---- products without title, in a scrape run and in the product mapper
ScrapeRun == mpc = "none" /\ spc \in {"fetching", "delaying", "done"}
\* the pages whose products have been processed so far
PagesProcessed == IF spc = "done" THEN scraperResult.totalPages ELSE page - 1
Untitled(ps) == SelectSeq(ps, LAMBDA p : ~HasTitle(p))
TitleReasons ==
    {"Product missing title", "Invalid product: Missing title",
     "Invalid product: Missing title, Missing product ID"}

\* C19: a product without title is not in the product output and is in the
\* failure list exactly once, with a reason naming the title; in a scrape run
\* the products after it, on its page and on later pages, are still processed
C19_MissingTitleIsOneFailure ==
    /\ ScrapeRun =>
          /\ \A k \in 1..Len(allProducts) : HasTitle(allProducts[k])
          /\ allProducts = SelectSeq(PagesProducts(PagesProcessed), HasTitle)
          /\ Len(failedProducts) = Len(Untitled(PagesProducts(PagesProcessed)))
          /\ \A k \in 1..Len(failedProducts) :
                /\ failedProducts[k].title = "Unknown"
                /\ failedProducts[k].error = "Product missing title"
          /\ spc = "done" =>
                /\ scraperResult.products = allProducts
                /\ scraperResult.failedProducts = failedProducts
    /\ MapInputs =>
          /\ \A k \in 1..Len(mapped.products) : mapped.products[k].title # ""
          /\ Len(SelectSeq(mapped.failedProducts,
                           LAMBDA f : f.error \in TitleReasons))
               = Len(Untitled(RawProducts))
          /\ Len(SelectSeq(mapped.failedProducts, LAMBDA f : f.title = "Unknown"))
               = Len(Untitled(RawProducts))

C19_Witness ==
    /\ ScrapeRun
    /\ spc = "done"
    /\ feed[1] = "mixed"
    /\ feed[2] = "plain"
    /\ scraperResult.totalPages = 2
    /\ Len(scraperResult.failedProducts) = 1
    /\ Len(scraperResult.products) = 4
    /\ scraperResult.products[2].id = 13
    /\ scraperResult.products[4].id = 21

\* ---- variants without identifier or title, in a scrape run
TitledProcessed == SelectSeq(PagesProducts(PagesProcessed), HasTitle)
InSeq(x, seq) == \E k \in 1..Len(seq) : seq[k] = x
VariantsOfProduct(p) == IF p.variantsIsArray THEN p.variants ELSE <<>>

\* C20: in a scrape run a variant without identifier or without title is left
\* out of the variants output and is not recorded in failedProducts; its
\* product stays in the products output and the valid variants of the same
\* product stay in the variants output, in their order
C20_InvalidVariantDroppedAlone ==
    ScrapeRun =>
        /\ \A k \in 1..Len(TitledProcessed) :
              LET p == TitledProcessed[k] IN
              /\ InSeq(p, allProducts)
              /\ \A j \in 1..Len(VariantsOfProduct(p)) :
                    IsValidVariant(p.variants[j]) <=> InSeq(p.variants[j], allVariants)
        /\ allVariants = ValidVariantsOf(TitledProcessed)
        /\ \A k \in 1..Len(allVariants) : IsValidVariant(allVariants[k])
        /\ Len(failedProducts) = Len(Untitled(PagesProducts(PagesProcessed)))
        /\ \A k \in 1..Len(failedProducts) :
              failedProducts[k].error = "Product missing title"
        /\ spc = "done" => scraperResult.variants = allVariants

C20_Witness ==
    /\ ScrapeRun
    /\ spc = "done"
    /\ feed[1] = "mixed"
    /\ scraperResult.totalPages >= 1
    /\ scraperResult.products[1].id = 11
    /\ Len(scraperResult.products[1].variants) = 4
    /\ scraperResult.variants[1].id = 1001
    /\ scraperResult.variants[2].id = 1004
    /\ Len(scraperResult.failedProducts) >= 1

\* ---- the rate-limit delays of a scrape run, read off the history
NumDelays == Len(SelectSeq(trace, IsDelay))
IsFirstFetch(e) == IsCall(e) /\ e.op = "page" /\ e.n = 1
NonEmptyProcessed ==
    Len(SelectSeq(Iota(PagesProcessed), LAMBDA k : ~IsEmptyPage(k)))

\* C21: scrape awaits the rate-limit delay once after each page that brought
\* products and before the fetch of the next page; it awaits none before
\* page 1, after an empty page or after a page whose fetch failed
C21_DelayBetweenPages ==
    ScrapeRun =>
        /\ IsFirstFetch(trace[1]) /\ trace[1].arg = 1
        /\ NumDelays = NonEmptyProcessed
        /\ \A k \in 1..Len(trace) :
              /\ IsDelay(trace[k]) =>
                    /\ trace[k].arg = RATE_LIMIT_DELAY
                    /\ k > 1
                    /\ IsCall(trace[k - 1])
                    /\ ~IsEmptyPage(trace[k - 1].arg)
                    /\ k < Len(trace) =>
                          /\ IsFirstFetch(trace[k + 1])
                          /\ trace[k + 1].arg = trace[k - 1].arg + 1
              /\ (IsFirstFetch(trace[k]) /\ k > 1) => IsDelay(trace[k - 1])
        /\ IsDelay(LastEvent) <=> spc = "delaying"
        /\ spc = "done" => IsCall(LastEvent)

C21_Witness ==
    /\ ScrapeRun
    /\ spc = "done"
    /\ StoppedByFailure
    /\ NumDelays = 2
    /\ FetchedPages = <<1, 2, 3>>
    /\ NumSleeps > 0

\* ---- a pipeline run: the CLI, or the scraper or the sync client on their own
InitPipeline == InitMain \/ InitScrape \/ InitSync

NextPipeline == NextMain \/ ScrapeStart \/ SyncStart

SpecPipeline == InitPipeline /\ [][NextPipeline]_vars

\* the arguments of the calls of one closure never go back
CallsAscend(op) ==
    LET c == CallsOf(op)
    IN \A k \in 1..(Len(c) - 1) : c[k].arg <= c[k + 1].arg

\* C22: at every moment of a pipeline run at most one outbound request is in
\* flight: the fetch of page N+1 is issued only after the fetch of page N, with
\* all its retries, has completed, and batch k+1 is submitted only after the
\* call of batch k, with all its retries, has completed
C22_OneRequestAtATime ==
    /\ Cardinality(inflight) <= 1
    /\ rstat = "inflight" => inflight = {<<rop, ReqArg(rop)>>}
    /\ CallsAscend("page")
    /\ CallsAscend("batch")

C22_Witness ==
    /\ inflight = {<<"batch", 2>>}
    /\ attempt = 2
    /\ Len(CallsOf("batch")) = 4
    /\ NumSleeps = 2

\* ---- sync: the aggregates of the returned result, stated on the answers
\* the store identifier of the first answer that reported success with one
RECURSIVE FirstStoreId(_)
FirstStoreId(k) ==
    IF k > Len(answers) THEN 0
    ELSE IF ~IsBadAnswer(answers[k]) /\ answers[k].mutation.storeId # 0
      THEN answers[k].mutation.storeId
    ELSE FirstStoreId(k + 1)

ResultAggregatesAnswers ==
    /\ syncResult.result.storeId = FirstStoreId(1)
    /\ syncResult.result.productsCreated = CreatedUpTo(Len(answers), "products")
    /\ syncResult.result.variantsCreated = CreatedUpTo(Len(answers), "variants")
    /\ syncResult.result.errors = ErrorsUpTo(Len(answers))

\* C23: the result sync returns aggregates over all batches in submission
\* order: storeId is the first non-empty store identifier a batch returned,
\* productsCreated and variantsCreated are the sums of the counts the batches
\* reported, errors is the concatenation in batch order of the batch error
\* strings
C23_ResultAggregatesAllBatches ==
    SyncReturned =>
        /\ Len(answers) = NumBatches
        /\ syncResult.hasResult
        /\ ResultAggregatesAnswers

\* whenever sync returns its summary, the summary aggregates every batch
SummaryAggregatesAllBatches ==
    SyncCompleted =>
        /\ Len(answers) = NumBatches
        /\ ResultAggregatesAnswers

\* batch 1 was answered with a store identifier and counts, the request of
\* batch 2 failed on every attempt: the returned value carries no result
AggregatesLost ==
    /\ SyncReturned
    /\ ~syncResult.hasResult
    /\ Len(answers) = 1
    /\ FirstStoreId(1) # 0
    /\ CreatedUpTo(1, "products") = 20
    /\ syncResult.result.storeId = 0
    /\ syncResult.result.productsCreated = 0

\* ---- delete-by-id: what deleteStoreById returned, against what the remote said
DeleteReturned == DeleteMode /\ Requested("delete") /\ mpc = "exit"
DeleteAnswered == rval # None
RemoteSaidTrue == DeleteAnswered /\ rval.deleteStore = "true"
\* the failure kind of an answered delete request
DeleteFailureKind ==
    IF Len(rval.gqlErrors) > 0 THEN "graphql"
    ELSE IF rval.deleteStore = "absent" THEN "missing"
    ELSE IF rval.deleteStore = "false" THEN "false"
    ELSE "none"
\* the messages deleteStoreById gives for the three failure kinds
DeleteFailureMessages ==
    [graphql |-> DeleteOutcome(DeleteBody(<<"denied">>, "absent"), "7").message,
     missing |-> DeleteOutcome(DeleteBody(<<>>, "absent"), "7").message,
     false   |-> DeleteOutcome(DeleteBody(<<>>, "false"), "7").message]

\* C24: deleteStore(credential, id) never raises (a request failing on every
\* attempt gives a returned failure) and returns success = true only when the
\* remote returned deleteStore = true; a GraphQL-level error, a missing result
\* and an explicit false each give success = false with a message distinct
\* from the other two
C24_DeleteNeverRaisesThreeMessages ==
    /\ (mpc = "delete" /\ rstat \in {"returned", "thrown"}) => ENABLED MainOnDelete
    /\ DeleteReturned =>
          /\ deleteResult.success \in BOOLEAN
          /\ deleteResult.success => RemoteSaidTrue
          /\ ~DeleteAnswered =>
                /\ ~deleteResult.success
                /\ deleteResult.message = "Delete error: Network Error"
          /\ (DeleteAnswered /\ DeleteFailureKind # "none") =>
                /\ ~deleteResult.success
                /\ deleteResult.message = DeleteFailureMessages[DeleteFailureKind]
                /\ \A k \in {"graphql", "missing", "false"} \ {DeleteFailureKind} :
                      deleteResult.message # DeleteFailureMessages[k]

C24_Witness ==
    /\ DeleteReturned
    /\ DeleteAnswered
    /\ DeleteFailureKind = "false"
    /\ deleteResult = [success |-> FALSE, message |-> "Delete mutation failed"]
    /\ NumSleeps > 0

\* ---- delete mode: the requests of a run of `delete <storeid> <email> <password>`
DeleteCommandLine == mpc # "none" /\ Len(argv) >= 1 /\ argv[1] = DeleteCommand
\* the calls of deleteStoreById: the first attempts of the delete request
DeleteCalls == Len(SelectSeq(trace, LAMBDA e : IsCall(e) /\ e.op = "delete" /\ e.n = 1))

\* C25: in delete mode the CLI authenticates first and then calls delete-by-id
\* once: it issues no request to a storefront host (detection, page fetch,
\* shop info) and no sync mutation, and it exits 0 only if both the
\* authentication and the delete succeeded
C25_DeleteModeBypassesScrape ==
    DeleteCommandLine =>
        /\ \A k \in 1..Len(trace) : trace[k].op \in {"auth", "delete"}
        /\ sent = <<>>
        /\ Len(CallsOf("auth")) <= 1
        /\ DeleteCalls <= 1
        /\ trace # <<>> => trace[1].op = "auth"
        /\ Len(argv) < 4 => trace = <<>>
        /\ Requested("delete") => authResult.success
        /\ mpc = "exit" =>
              /\ exitCode \in {0, 1}
              /\ (Len(argv) >= 4 /\ authResult.success) => DeleteCalls = 1
              /\ exitCode = 0 => (authResult.success /\ deleteResult.success)

C25_Witness ==
    /\ DeleteCommandLine
    /\ mpc = "exit"
    /\ exitCode = 0
    /\ trace = <<CallEvent("auth", 0, 1), CallEvent("delete", 0, 1)>>
    /\ deleteResult.success

\* ---- the variant mapper on one raw variant
OneVariant == mpc = "mapped" /\ Len(RawVariants) = 1
VariantAccepted == OneVariant /\ Len(mapped.variants) = 1
RawVariant == RawVariants[1]
OutVariant == mapped.variants[1]
\* kilograms per unit of weight, in units of 10^-7 kg
KgPerUnit(unit) ==
    CASE unit \in {"g", "grams"} -> 10000
      [] unit = "kg" -> 10000000
      [] unit = "lb" -> 4535920
      [] unit = "oz" -> 283495
      [] OTHER -> 10000
Converted(v) == [null |-> FALSE, e7 |-> v.weight.n * KgPerUnit(v.weight_unit)]

\* C26 as stated: the weight is converted to kilograms by the rule of its unit
\* (g / 1000, kg unchanged, lb * 0.453592, oz * 0.0283495, other / 1000), a zero
\* or absent weight, and no other, maps to null, and weight_unit is always 'kg'
C26_NullOnlyZeroOrAbsent ==
    VariantAccepted =>
        /\ OutVariant.weight_unit = "kg"
        /\ OutVariant.weight =
             (IF ~RawVariant.weight.has \/ RawVariant.weight.n = 0
                THEN NullWeight ELSE Converted(RawVariant))

\* C26 (amended): the weight is converted to kilograms by the rule of its unit;
\* a zero, negative or absent weight maps to null; weight_unit is always 'kg'
C26_WeightToKilograms ==
    VariantAccepted =>
        /\ OutVariant.weight_unit = "kg"
        /\ OutVariant.weight =
             (IF ~RawVariant.weight.has \/ RawVariant.weight.n <= 0
                THEN NullWeight ELSE Converted(RawVariant))

C26_Witness ==
    /\ VariantAccepted
    /\ RawVariant.weight = Weight(2)
    /\ RawVariant.weight_unit = "oz"
    /\ OutVariant.weight = [null |-> FALSE, e7 |-> 566990]
    /\ OutVariant.weight_unit = "kg"

\* ---- which raw variants the variant mapper owes a failure
\* the price literals that are non-negative decimal numbers
NonNegativePrices == {"10.00", "0"}
VariantInvalid(v) == v.id = 0 \/ v.title = "" \/ v.price \notin NonNegativePrices
\* the prices parseFloat reads a non-negative number from
ValidatorAccepts(v) == v.price \in NonNegativePrices \cup {"10abc"}

\* C27: mapVariant fails if and only if the identifier is absent, the title is
\* absent or the price is not a valid non-negative number; mapAllVariants
\* leaves such a variant out of the mapped list and reports it exactly once in
\* the failed list, so every mapped variant has an identifier, a title and a
\* valid non-negative price
C27_FailsIffInvalid ==
    MapInputs =>
        /\ Len(mapped.variants) = Len(SelectSeq(RawVariants, LAMBDA v : ~VariantInvalid(v)))
        /\ Len(mapped.failedVariants) = Len(SelectSeq(RawVariants, VariantInvalid))
        /\ \A k \in 1..Len(mapped.variants) :
              /\ mapped.variants[k].shopify_variant_id # "0"
              /\ mapped.variants[k].title # ""
              /\ mapped.variants[k].price \in NonNegativePrices

\* the variant mapper fails exactly when the identifier or the title is absent
\* or isValidPrice rejects the price, and reports each such variant once
VariantFailsIffValidatorRejects ==
    MapInputs =>
        LET bad(v) == v.id = 0 \/ v.title = "" \/ ~ValidatorAccepts(v)
        IN /\ Len(mapped.variants) = Len(SelectSeq(RawVariants, LAMBDA v : ~bad(v)))
           /\ Len(mapped.failedVariants) = Len(SelectSeq(RawVariants, bad))

\* a price with a numeric prefix went through the mapper
MalformedPriceMapped ==
    /\ VariantAccepted
    /\ RawVariant.price = "10abc"
    /\ OutVariant.price = "10abc"

\* ---- the inventory quantity of a mapped variant
SourceQuantity == RawVariant.inventory_quantity
OutQuantity == OutVariant.inventory_quantity
Zero == [nan |-> FALSE, tenths |-> 0]

\* C28: for every variant mapVariant accepts, inventory_quantity in the output
\* is a number: 0 when the source omits the quantity (never null or undefined)
\* and the source's quantity when that is a non-negative integer
C28_InventoryIsNumber ==
    VariantAccepted =>
        /\ ~OutQuantity.nan
        /\ SourceQuantity.type = "undefined" => OutQuantity = Zero
        /\ (SourceQuantity.type = "number" /\ SourceQuantity.tenths % 10 = 0
              /\ SourceQuantity.tenths >= 0) =>
                 OutQuantity = [nan |-> FALSE, tenths |-> SourceQuantity.tenths]

\* when the source omits the quantity or gives a JSON number, the output is a
\* number: the source's when it is a non-negative integer, 0 otherwise
NumericQuantityMapped ==
    (VariantAccepted /\ SourceQuantity.type # "string") =>
        /\ ~OutQuantity.nan
        /\ OutQuantity =
             (IF SourceQuantity.type = "number" /\ SourceQuantity.tenths % 10 = 0
                   /\ SourceQuantity.tenths >= 0
                THEN [nan |-> FALSE, tenths |-> SourceQuantity.tenths] ELSE Zero)

\* a quantity text with an integer prefix passed isValidInventory and
\* Number() made NaN of it
QuantityNotANumber ==
    /\ VariantAccepted
    /\ SourceQuantity = StrQuantity("5abc")
    /\ OutQuantity.nan

\* ---- the Store Record: scrapeShopifyStore has assembled its output
StoreAssembled == ScrapeMode /\ data # EmptyData
CliLogo == OptionalArg(argv, 4)
CliDescription == OptionalArg(argv, 5)
ShopInfoFailed == shopAnswer.stat = "thrown"

\* C29: in the Store Record, logo_url and description each take the CLI value
\* when one is given, otherwise the shop-info value when there is one, otherwise
\* null (""); default_currency is the shop-info currency, 'USD' when shop info
\* failed, and supported_currencies is the one-element list of that currency
C29_StoreRecordPrecedence ==
    StoreAssembled =>
        /\ data.store.logo_url =
             (IF CliLogo # "" THEN CliLogo
              ELSE IF shopInfo.logo_url # "" THEN shopInfo.logo_url ELSE "")
        /\ data.store.description =
             (IF CliDescription # "" THEN CliDescription
              ELSE IF shopInfo.description # "" THEN shopInfo.description ELSE "")
        /\ data.store.default_currency = shopInfo.currency
        /\ data.store.default_currency = SuppliedCurrency
        /\ ShopInfoFailed => data.store.default_currency = "USD"
        /\ data.store.supported_currencies = <<data.store.default_currency>>

C29_Witness ==
    /\ StoreAssembled
    /\ CliLogo = "cli-logo"
    /\ shopInfo.logo_url \notin {"", "cli-logo"}
    /\ shopInfo.description \notin {"", "cli-desc"}
    /\ data.store.logo_url = "cli-logo"
    /\ data.store.description = "cli-desc"
    /\ data.store.default_currency # "USD"

\* ---- the normalizer on decorated hostnames
NormalizeReturned == mpc = "normalized"
NormalizeFailed == NormalizeReturned /\ scrapeError # ""
\* the decorations the input of this run was made of
DecorationsOfInput == { r \in DecoratedInputs : r.input = argv[1] }
\* prefixes in lower case, nothing before a prefix, a query only after a path
PlainDecoration(r) ==
    /\ r.proto # <<"H","T","T","P","S",":","/","/">>
    /\ r.www # <<"W","W","W",".">>
    /\ r.suffix # <<"?","y","=","1">>
    /\ r.lead = <<>> \/ (r.proto = <<>> /\ r.www = <<>>)

\* C30: for every valid hostname h and every decoration of h with a protocol
\* prefix, a 'www.' prefix, a path or query suffix, a port suffix, upper-case
\* letters or surrounding whitespace, normalize returns the bare lower-case
\* hostname h; for every input whose stripped result is not a valid hostname
\* it fails with InvalidDomain
C30_EveryDecorationStripped ==
    NormalizeReturned =>
        /\ \A r \in DecorationsOfInput :
              /\ ~NormalizeFailed
              /\ normalizedDomain = r.host
        /\ argv[1] \in OtherInputs => NormalizeFailed

\* the decorations the code does strip: prefixes in lower case with nothing
\* before them, port, path, upper-case letters in the host, whitespace around
\* a host without prefix or after the suffix
PlainDecorationsStripped ==
    NormalizeReturned =>
        /\ \A r \in DecorationsOfInput :
              PlainDecoration(r) => (~NormalizeFailed /\ normalizedDomain = r.host)
        /\ argv[1] \in OtherInputs => NormalizeFailed

\* an upper-case protocol prefix makes the normalizer throw on a valid host
UpperProtocolRejected ==
    /\ NormalizeFailed
    /\ argv[1] = UpperProtocol
    /\ scrapeError = "Invalid domain format: https"

\* ---- what retryWithBackoff throws
RetryThrew == rstat = "thrown" /\ attempt > maxRetries
RaisedError == ThrownError(lastError, RetryName(rop))

\* C31: the error retry raises after its final failed attempt is the last
\* attempt's error tagged with the label passed to retry, so that a caller
\* catching it can tell which operation failed
C31_RaisedErrorCarriesLabel ==
    RetryThrew =>
        /\ RaisedError.kind = lastError.kind
        /\ RaisedError.at = maxRetries
        /\ "label" \in DOMAIN RaisedError
        /\ RaisedError.label = RetryName(rop)

\* the raised error is the error of the last attempt, with nothing added
RaisedErrorIsLastError ==
    RetryThrew =>
        /\ RaisedError = lastError
        /\ RaisedError.at = maxRetries
        /\ DOMAIN RaisedError = {"kind", "at"}


\* ---- retryWithBackoff under every MAX_RETRIES setting
\* NaN, as the loop sees it: attempt <= NaN and attempt < NaN are both false,
\* which is how every attempt number compares with this value
NaN == -1000

\* the values of the environment variable MAX_RETRIES ("" when it is not set)
MaxRetriesSettings == {"", "1", "2", "4", "5", "0", "-1", "abc"}

\* parseInt(process.env.MAX_RETRIES || '3', 10)
MAX_RETRIES(setting) ==
    CASE setting = ""    -> 3
      [] setting = "1"   -> 1
      [] setting = "2"   -> 2
      [] setting = "4"   -> 4
      [] setting = "5"   -> 5
      [] setting = "0"   -> 0
      [] setting = "-1"  -> -1
      [] OTHER           -> NaN

InitRetryAny ==
    /\ maxRetries \in {MAX_RETRIES(s) : s \in MaxRetriesSettings}
    /\ rop = "op"
    /\ RetryIdle
    /\ feed = <<>>
    /\ ScrapeIdle
    /\ data = EmptyData
    /\ SyncIdle
    /\ MainIdle

SpecRetryAny == InitRetryAny /\ [][NextRetry]_vars

RetryFinished == rstat \in {"returned", "thrown"}
\* some invocation of the operation rejected with the error retry raises
RaisedByOperation ==
    /\ lastError.kind \in ErrorKinds(rop)
    /\ lastError.at \in 1..NumCalls

\* C32: for every value of maxAttempts, a finished retry has invoked the
\* operation at least once, and an error it raises is an error that some
\* invocation of the operation raised
C32_InvokedAtLeastOnce ==
    /\ RetryFinished => NumCalls >= 1
    /\ rstat = "thrown" => RaisedByOperation

\* with maxAttempts of one or more, both hold
PositiveAttemptsInvoke ==
    (maxRetries >= 1) =>
        /\ RetryFinished => NumCalls >= 1
        /\ rstat = "thrown" => RaisedByOperation

\* retry raised without ever invoking the operation
RaisedWithoutInvocation ==
    /\ rstat = "thrown"
    /\ NumCalls = 0
    /\ lastError = UnknownError


\* ---- sync runs on Scrape Outputs whose variants and products do not pair up
\* a variant whose parent product is not in the product list
OrphanVariant == MappedVariant(3, MaxProducts + 1)
\* a product list whose last product repeats the shopify_id of the first one,
\* one batch later
SharedIdProducts == ProductList(BATCH_SIZE) \o << MappedProduct(1) >>

UnpairedInputs ==
    { [store |-> StoreRecord, products |-> ProductList(MaxProducts),
       product_variants |-> VariantList(MaxProducts) \o << OrphanVariant >>],
      [store |-> StoreRecord, products |-> ProductList(2),
       product_variants |-> << OrphanVariant, MappedVariant(1, 2) >>],
      [store |-> StoreRecord, products |-> SharedIdProducts,
       product_variants |->
           << MappedVariant(1, 1), MappedVariant(2, BATCH_SIZE), OrphanVariant >>] }

InitSyncUnpaired ==
    /\ maxRetries \in 1..MaxAttempts
    /\ rop = "batch"
    /\ RetryIdle
    /\ feed = <<>>
    /\ ScrapeIdle
    /\ data \in UnpairedInputs
    /\ SyncIdle
    /\ MainIdle

SpecSyncUnpaired == InitSyncUnpaired /\ [][NextSync]_vars

\* the batches a variant was submitted in
BatchesWith(v) ==
    {k \in 1..Len(sent) :
        \E j \in 1..Len(sent[k].variants) : sent[k].variants[j] = v}
\* the batches of the product list that hold a product with the identifier id
BatchesOfId(id) ==
    {k \in 1..NumBatches :
        \E j \in 1..Len(data.products) :
            /\ data.products[j].shopify_id = id
            /\ ((j - 1) \div BATCH_SIZE) + 1 = k}
SourceVariants == {data.product_variants[j] : j \in 1..Len(data.product_variants)}

\* C33: in a sync run in which every batch request completed, every variant of
\* the Scrape Output was submitted in exactly one batch, also a variant without
\* a parent in the product list and a variant whose parent identifier is shared
\* by two products
C33_EveryVariantInOneBatch ==
    SyncCompleted => \A v \in SourceVariants : Cardinality(BatchesWith(v)) = 1

\* C33 (amended): a variant was submitted in exactly the batches that hold a
\* product with its parent identifier: in one batch when that identifier belongs
\* to products of one batch, in no batch when no product has it, and in every
\* such batch when products of several batches share it
C33_VariantInBatchesOfItsParent ==
    SyncCompleted =>
        \A v \in SourceVariants :
            /\ BatchesWith(v) = BatchesOfId(v.shopify_product_id)
            /\ Cardinality(BatchesOfId(v.shopify_product_id)) = 1
                   => Cardinality(BatchesWith(v)) = 1

C33_Witness ==
    /\ SyncCompleted
    /\ data.products = SharedIdProducts
    /\ BatchesWith(MappedVariant(1, 1)) = {1, 2}
    /\ BatchesWith(MappedVariant(2, BATCH_SIZE)) = {1}
    /\ BatchesWith(OrphanVariant) = {}


\* ---- what a successful sync run has submitted
StoreSubmitted == \E k \in 1..Len(sent) : sent[k].store = data.store

\* C34: a sync run that returned success = true has submitted the Store Record
\* in at least one mutation call, whatever the Scrape Output, also one with an
\* empty product list
C34_SuccessHasSubmittedStore == SyncSucceeded => StoreSubmitted

\* with at least one product in the list the store went out with every batch
StoreSubmittedWithProducts ==
    (SyncSucceeded /\ Len(data.products) > 0) =>
        /\ StoreSubmitted
        /\ \A k \in 1..Len(sent) : sent[k].store = data.store

\* success was returned and no request was ever made
SucceededWithoutRequest ==
    /\ SyncSucceeded
    /\ Len(data.products) = 0
    /\ sent = <<>>
    /\ CallsOf("batch") = <<>>


\* ---- a run of the CLI against a storefront that serves a product without id
NoIdKinds == {"plain", "mixed", "noid"}

InitMainNoId ==
    /\ maxRetries = MaxAttempts
    /\ rop = "none"
    /\ RetryIdle
    /\ feed \in [1..MainPages -> NoIdKinds]
    /\ ScrapeIdle
    /\ data = EmptyData
    /\ SyncIdle
    /\ argv \in CommandLines
    /\ mpc = "start"
    /\ normalizedDomain = <<>>
    /\ detection = [isShopify |-> FALSE, error |-> ""]
    /\ mapped = NoMapped
    /\ shopInfo = NoShopInfo
    /\ shopAnswer = NoShopAnswer
    /\ authResult = NoAuthResult
    /\ deleteResult = [success |-> FALSE, message |-> ""]
    /\ scrapeError = ""
    /\ exitCode = -1

SpecMainNoId == InitMainNoId /\ [][NextMain]_vars

OutputReturned == data # EmptyData
OutputIds == {data.products[k].shopify_id : k \in 1..Len(data.products)}
OutputParents ==
    {data.product_variants[k].shopify_product_id : k \in 1..Len(data.product_variants)}
\* the products of the pages served, and the identifiers of those that have
\* both a title and an id
ServedProducts == PagesProducts(MainPages)
KeptIds ==
    {ToString(ServedProducts[k].id) :
        k \in {j \in 1..Len(ServedProducts) :
                  ServedProducts[j].title # "" /\ ServedProducts[j].id # 0}}

\* C35: in every Scrape Output the orchestrator returns, each variant's
\* shopify_product_id is the shopify_id of a product of the same output: a
\* product dropped by the scraper or by the mapper leaves no variant behind
C35_EveryVariantHasItsProduct ==
    OutputReturned => OutputParents \subseteq OutputIds

\* a product dropped by the scraper (no title) leaves no variant in the output:
\* every variant in it belongs to a product that had a title
VariantsOfTitledOnly ==
    OutputReturned =>
        /\ OutputIds \subseteq KeptIds
        /\ OutputParents \subseteq
             {ToString(ServedProducts[k].id) :
                 k \in {j \in 1..Len(ServedProducts) : ServedProducts[j].title # ""}}

\* the output holds a variant of a product the mapper dropped
VariantWithoutProduct ==
    /\ OutputReturned
    /\ \E k \in 1..Len(data.product_variants) :
          data.product_variants[k].shopify_product_id \notin OutputIds


\* ---- a scrape run in which every request eventually returns or fails, every
\* sleep ends and every continuation runs
SpecScrapeLive == InitScrape /\ [][NextScrape]_vars /\ WF_vars(NextScrape)

\* the first page of the feed that brings no products, and the number P of
\* non-empty pages before it
FirstEmptyPage ==
    CHOOSE k \in 1..(MaxPages + 1) :
        IsEmptyPage(k) /\ \A j \in 1..(k - 1) : ~IsEmptyPage(j)
NonEmptyPages == FirstEmptyPage - 1
ScrapeDone == spc = "done"

\* C36: scrape terminates, and with P non-empty pages followed by an empty page
\* it has then made exactly P+1 page fetches (retries apart) and awaited P
\* rate-limit delays
C36_TerminatesAfterAllPages ==
    /\ <>ScrapeDone
    /\ [](ScrapeDone =>
            /\ Len(FetchedPages) = NonEmptyPages + 1
            /\ NumDelays = NonEmptyPages)

\* C36 (amended): scrape terminates; when no page fetch failed on every attempt
\* it stopped at the first empty page, after P+1 fetches and P delays; when the
\* fetch of page N failed on every attempt it stopped there, after N <= P+1
\* fetches and N-1 delays. It stops at no other page: nothing but an empty page
\* or a failed fetch ends the pagination.
C36_TerminatesAtEmptyOrFailure ==
    /\ <>ScrapeDone
    /\ [](ScrapeDone =>
            /\ StoppedAtEmpty =>
                  /\ LastEvent.arg = FirstEmptyPage
                  /\ FetchedPages = Iota(NonEmptyPages + 1)
                  /\ NumDelays = NonEmptyPages
            /\ StoppedByFailure =>
                  /\ LastEvent.arg <= NonEmptyPages + 1
                  /\ FetchedPages = Iota(LastEvent.arg)
                  /\ NumDelays = LastEvent.arg - 1)

C36_Witness ==
    /\ ScrapeDone
    /\ StoppedAtEmpty
    /\ NonEmptyPages = MaxPages
    /\ Len(FetchedPages) = MaxPages + 1
    /\ NumDelays = MaxPages
    /\ NumSleeps > 0


\* ---- the attempts of a failed detection, one by one
NotAStoreMessage == "No products.json endpoint found at " \o HostText
DetectSleeps == SelectSeq(trace, LAMBDA e : IsSleep(e) /\ e.op = "detect")

\* C37: the error a failed detection reports is determined by its last attempt
\* alone: it is the not-a-Shopify-store message exactly when the last attempt
\* failed with HTTP 404, whatever the earlier attempts failed with; and a 404 is
\* retried like every other failure, so that maxRetries requests were made with
\* the backoff sleeps between them
C37_LastAttemptDecides ==
    DetectFailed =>
        /\ Len(failures) = maxRetries
        /\ lastError.kind = failures[maxRetries]
        /\ detection.error = NotAStoreMessage <=> failures[maxRetries] = "http404"
        /\ failures[maxRetries] # "http404" =>
              detection.error = "Detection failed: " \o ErrorMessage(failures[maxRetries])
        /\ Len(CallsOf("detect")) = maxRetries
        /\ Len(DetectSleeps) = maxRetries - 1
        /\ \A k \in 1..Len(DetectSleeps) :
              /\ DetectSleeps[k].n = k
              /\ DetectSleeps[k].arg = BackoffDelay(k)

\* an earlier attempt failed with 404, the last one with a network error
C37_Witness ==
    /\ DetectFailed
    /\ maxRetries >= 2
    /\ failures[1] = "http404"
    /\ failures[maxRetries] = "network"
    /\ detection.error = "Detection failed: Network Error"
    /\ Len(CallsOf("detect")) = maxRetries

\* the opposite order: an earlier attempt failed otherwise, the last with 404
Earlier404Irrelevant ==
    /\ DetectFailed
    /\ failures[1] = "timeout"
    /\ failures[maxRetries] = "http404"
    /\ detection.error = NotAStoreMessage


\* ---- normalizeDomain applied to its own result
NormalizeSucceeded == NormalizeReturned /\ scrapeError = ""
Renormalized == normalizeDomain(normalizedDomain)

\* C38: normalize is idempotent: whenever normalize(x) succeeds,
\* normalize(normalize(x)) succeeds and equals normalize(x)
C38_NormalizeIdempotent ==
    NormalizeSucceeded =>
        /\ DomainAccepted(Renormalized)
        /\ Renormalized.value = normalizedDomain

\* on the inputs whose prefixes are in lower case with nothing before them the
\* result is a fixed point
IdempotentOnPlainDecorations ==
    (NormalizeSucceeded /\ \E r \in DecorationsOfInput : PlainDecoration(r)) =>
        /\ DomainAccepted(Renormalized)
        /\ Renormalized.value = normalizedDomain

\* the result still carries a www. label that a second pass strips
SecondPassStripsWww ==
    /\ NormalizeSucceeded
    /\ normalizedDomain = <<"w","w","w",".">> \o ShopCom
    /\ DomainAccepted(Renormalized)
    /\ Renormalized.value = ShopCom

====
